---- MODULE Spec2Model ----
(***************************************************************************)
(* Model of the financial-statement ETL pipeline of src/main.py:          *)
(* the rate-limited fetches, transform_and_load (normalisation of one     *)
(* provider payload followed by INSERT ... ON CONFLICT DO NOTHING) and    *)
(* the sequential driver main().                                          *)
(* Further down: export_data.py and the two dashboard scripts, which      *)
(* pivot the stored rows into one row per company and date (load_data)    *)
(* and derive margins, current ratio and revenue growth                   *)
(* (calculate_metrics).                                                    *)
(*                                                                         *)
(* Modelling conventions                                                   *)
(*  - a Python str is a sequence of one-character strings, so that int()  *)
(*    is modelled by parsing it;                                           *)
(*  - a JSON value is a record [t, s, n, d]: t is the JSON/Python type,   *)
(*    s the characters of a str, n/d the numerator/denominator of a       *)
(*    number;                                                              *)
(*  - fiscalDateEnding is an ISO-8601 date string; its lexicographic      *)
(*    order (the order sorted() uses) and the order of the DATE it casts  *)
(*    to coincide and are modelled by the order of the integers;          *)
(*  - a table is the sequence of its rows in insertion order.             *)
(***************************************************************************)
EXTENDS Integers, Sequences, FiniteSets, TLC

(***************************************************************************)
(* Program constants                                                       *)
(***************************************************************************)
COMPANIES == <<"TEL", "ST", "DD">>

STATEMENT_TYPES == <<"INCOME_STATEMENT", "BALANCE_SHEET", "CASH_FLOW">>

KeepReports == 3

CooldownSeconds == 15

ThrottleWaitSeconds == 60

\* 'API call frequency', a str as its characters
LimitPhrase ==
    <<"A", "P", "I", " ", "c", "a", "l", "l", " ", "f", "r", "e", "q", "u",
      "e", "n", "c", "y">>

(***************************************************************************)
(* Bounds of the model                                                     *)
(***************************************************************************)
MaxRuns == 2

MaxFaults == 1

MaxReports == 4

(***************************************************************************)
(* JSON values and Python's int()                                          *)
(***************************************************************************)
JNull == [t |-> "null", s |-> <<>>, n |-> 0, d |-> 1]

JStr(chars) == [t |-> "str", s |-> chars, n |-> 0, d |-> 1]

JInt(m) == [t |-> "int", s |-> <<>>, n |-> m, d |-> 1]

JFloat(num, den) == [t |-> "float", s |-> <<>>, n |-> num, d |-> den]

JInf == [t |-> "inf", s |-> <<>>, n |-> 0, d |-> 1]

JNaN == [t |-> "nan", s |-> <<>>, n |-> 0, d |-> 1]

JList == [t |-> "list", s |-> <<>>, n |-> 0, d |-> 1]

NoneSentinel == <<"N", "o", "n", "e">>

\* A character is a one-character string; a character that a TLA+ string
\* cannot hold is written "u+" and its code point in hexadecimal (either
\* case, at least four digits): "u+0663" is ARABIC-INDIC DIGIT THREE.
\* the decimal digits of Unicode (str.isdecimal), one row per script, from
\* its zero to its nine, the row of ASCII first
DecimalDigits ==
    << <<"0", "1", "2", "3", "4", "5", "6", "7", "8", "9">>,
       <<"u+0660", "u+0661", "u+0662", "u+0663", "u+0664", "u+0665", "u+0666", "u+0667", "u+0668", "u+0669">>,
       <<"u+06f0", "u+06f1", "u+06f2", "u+06f3", "u+06f4", "u+06f5", "u+06f6", "u+06f7", "u+06f8", "u+06f9">>,
       <<"u+06F0", "u+06F1", "u+06F2", "u+06F3", "u+06F4", "u+06F5", "u+06F6", "u+06F7", "u+06F8", "u+06F9">>,
       <<"u+07c0", "u+07c1", "u+07c2", "u+07c3", "u+07c4", "u+07c5", "u+07c6", "u+07c7", "u+07c8", "u+07c9">>,
       <<"u+07C0", "u+07C1", "u+07C2", "u+07C3", "u+07C4", "u+07C5", "u+07C6", "u+07C7", "u+07C8", "u+07C9">>,
       <<"u+0966", "u+0967", "u+0968", "u+0969", "u+096a", "u+096b", "u+096c", "u+096d", "u+096e", "u+096f">>,
       <<"u+0966", "u+0967", "u+0968", "u+0969", "u+096A", "u+096B", "u+096C", "u+096D", "u+096E", "u+096F">>,
       <<"u+09e6", "u+09e7", "u+09e8", "u+09e9", "u+09ea", "u+09eb", "u+09ec", "u+09ed", "u+09ee", "u+09ef">>,
       <<"u+09E6", "u+09E7", "u+09E8", "u+09E9", "u+09EA", "u+09EB", "u+09EC", "u+09ED", "u+09EE", "u+09EF">>,
       <<"u+0a66", "u+0a67", "u+0a68", "u+0a69", "u+0a6a", "u+0a6b", "u+0a6c", "u+0a6d", "u+0a6e", "u+0a6f">>,
       <<"u+0A66", "u+0A67", "u+0A68", "u+0A69", "u+0A6A", "u+0A6B", "u+0A6C", "u+0A6D", "u+0A6E", "u+0A6F">>,
       <<"u+0ae6", "u+0ae7", "u+0ae8", "u+0ae9", "u+0aea", "u+0aeb", "u+0aec", "u+0aed", "u+0aee", "u+0aef">>,
       <<"u+0AE6", "u+0AE7", "u+0AE8", "u+0AE9", "u+0AEA", "u+0AEB", "u+0AEC", "u+0AED", "u+0AEE", "u+0AEF">>,
       <<"u+0b66", "u+0b67", "u+0b68", "u+0b69", "u+0b6a", "u+0b6b", "u+0b6c", "u+0b6d", "u+0b6e", "u+0b6f">>,
       <<"u+0B66", "u+0B67", "u+0B68", "u+0B69", "u+0B6A", "u+0B6B", "u+0B6C", "u+0B6D", "u+0B6E", "u+0B6F">>,
       <<"u+0be6", "u+0be7", "u+0be8", "u+0be9", "u+0bea", "u+0beb", "u+0bec", "u+0bed", "u+0bee", "u+0bef">>,
       <<"u+0BE6", "u+0BE7", "u+0BE8", "u+0BE9", "u+0BEA", "u+0BEB", "u+0BEC", "u+0BED", "u+0BEE", "u+0BEF">>,
       <<"u+0c66", "u+0c67", "u+0c68", "u+0c69", "u+0c6a", "u+0c6b", "u+0c6c", "u+0c6d", "u+0c6e", "u+0c6f">>,
       <<"u+0C66", "u+0C67", "u+0C68", "u+0C69", "u+0C6A", "u+0C6B", "u+0C6C", "u+0C6D", "u+0C6E", "u+0C6F">>,
       <<"u+0ce6", "u+0ce7", "u+0ce8", "u+0ce9", "u+0cea", "u+0ceb", "u+0cec", "u+0ced", "u+0cee", "u+0cef">>,
       <<"u+0CE6", "u+0CE7", "u+0CE8", "u+0CE9", "u+0CEA", "u+0CEB", "u+0CEC", "u+0CED", "u+0CEE", "u+0CEF">>,
       <<"u+0d66", "u+0d67", "u+0d68", "u+0d69", "u+0d6a", "u+0d6b", "u+0d6c", "u+0d6d", "u+0d6e", "u+0d6f">>,
       <<"u+0D66", "u+0D67", "u+0D68", "u+0D69", "u+0D6A", "u+0D6B", "u+0D6C", "u+0D6D", "u+0D6E", "u+0D6F">>,
       <<"u+0de6", "u+0de7", "u+0de8", "u+0de9", "u+0dea", "u+0deb", "u+0dec", "u+0ded", "u+0dee", "u+0def">>,
       <<"u+0DE6", "u+0DE7", "u+0DE8", "u+0DE9", "u+0DEA", "u+0DEB", "u+0DEC", "u+0DED", "u+0DEE", "u+0DEF">>,
       <<"u+0e50", "u+0e51", "u+0e52", "u+0e53", "u+0e54", "u+0e55", "u+0e56", "u+0e57", "u+0e58", "u+0e59">>,
       <<"u+0E50", "u+0E51", "u+0E52", "u+0E53", "u+0E54", "u+0E55", "u+0E56", "u+0E57", "u+0E58", "u+0E59">>,
       <<"u+0ed0", "u+0ed1", "u+0ed2", "u+0ed3", "u+0ed4", "u+0ed5", "u+0ed6", "u+0ed7", "u+0ed8", "u+0ed9">>,
       <<"u+0ED0", "u+0ED1", "u+0ED2", "u+0ED3", "u+0ED4", "u+0ED5", "u+0ED6", "u+0ED7", "u+0ED8", "u+0ED9">>,
       <<"u+0f20", "u+0f21", "u+0f22", "u+0f23", "u+0f24", "u+0f25", "u+0f26", "u+0f27", "u+0f28", "u+0f29">>,
       <<"u+0F20", "u+0F21", "u+0F22", "u+0F23", "u+0F24", "u+0F25", "u+0F26", "u+0F27", "u+0F28", "u+0F29">>,
       <<"u+1040", "u+1041", "u+1042", "u+1043", "u+1044", "u+1045", "u+1046", "u+1047", "u+1048", "u+1049">>,
       <<"u+1090", "u+1091", "u+1092", "u+1093", "u+1094", "u+1095", "u+1096", "u+1097", "u+1098", "u+1099">>,
       <<"u+17e0", "u+17e1", "u+17e2", "u+17e3", "u+17e4", "u+17e5", "u+17e6", "u+17e7", "u+17e8", "u+17e9">>,
       <<"u+17E0", "u+17E1", "u+17E2", "u+17E3", "u+17E4", "u+17E5", "u+17E6", "u+17E7", "u+17E8", "u+17E9">>,
       <<"u+1810", "u+1811", "u+1812", "u+1813", "u+1814", "u+1815", "u+1816", "u+1817", "u+1818", "u+1819">>,
       <<"u+1946", "u+1947", "u+1948", "u+1949", "u+194a", "u+194b", "u+194c", "u+194d", "u+194e", "u+194f">>,
       <<"u+1946", "u+1947", "u+1948", "u+1949", "u+194A", "u+194B", "u+194C", "u+194D", "u+194E", "u+194F">>,
       <<"u+19d0", "u+19d1", "u+19d2", "u+19d3", "u+19d4", "u+19d5", "u+19d6", "u+19d7", "u+19d8", "u+19d9">>,
       <<"u+19D0", "u+19D1", "u+19D2", "u+19D3", "u+19D4", "u+19D5", "u+19D6", "u+19D7", "u+19D8", "u+19D9">>,
       <<"u+1a80", "u+1a81", "u+1a82", "u+1a83", "u+1a84", "u+1a85", "u+1a86", "u+1a87", "u+1a88", "u+1a89">>,
       <<"u+1A80", "u+1A81", "u+1A82", "u+1A83", "u+1A84", "u+1A85", "u+1A86", "u+1A87", "u+1A88", "u+1A89">>,
       <<"u+1a90", "u+1a91", "u+1a92", "u+1a93", "u+1a94", "u+1a95", "u+1a96", "u+1a97", "u+1a98", "u+1a99">>,
       <<"u+1A90", "u+1A91", "u+1A92", "u+1A93", "u+1A94", "u+1A95", "u+1A96", "u+1A97", "u+1A98", "u+1A99">>,
       <<"u+1b50", "u+1b51", "u+1b52", "u+1b53", "u+1b54", "u+1b55", "u+1b56", "u+1b57", "u+1b58", "u+1b59">>,
       <<"u+1B50", "u+1B51", "u+1B52", "u+1B53", "u+1B54", "u+1B55", "u+1B56", "u+1B57", "u+1B58", "u+1B59">>,
       <<"u+1bb0", "u+1bb1", "u+1bb2", "u+1bb3", "u+1bb4", "u+1bb5", "u+1bb6", "u+1bb7", "u+1bb8", "u+1bb9">>,
       <<"u+1BB0", "u+1BB1", "u+1BB2", "u+1BB3", "u+1BB4", "u+1BB5", "u+1BB6", "u+1BB7", "u+1BB8", "u+1BB9">>,
       <<"u+1c40", "u+1c41", "u+1c42", "u+1c43", "u+1c44", "u+1c45", "u+1c46", "u+1c47", "u+1c48", "u+1c49">>,
       <<"u+1C40", "u+1C41", "u+1C42", "u+1C43", "u+1C44", "u+1C45", "u+1C46", "u+1C47", "u+1C48", "u+1C49">>,
       <<"u+1c50", "u+1c51", "u+1c52", "u+1c53", "u+1c54", "u+1c55", "u+1c56", "u+1c57", "u+1c58", "u+1c59">>,
       <<"u+1C50", "u+1C51", "u+1C52", "u+1C53", "u+1C54", "u+1C55", "u+1C56", "u+1C57", "u+1C58", "u+1C59">>,
       <<"u+a620", "u+a621", "u+a622", "u+a623", "u+a624", "u+a625", "u+a626", "u+a627", "u+a628", "u+a629">>,
       <<"u+A620", "u+A621", "u+A622", "u+A623", "u+A624", "u+A625", "u+A626", "u+A627", "u+A628", "u+A629">>,
       <<"u+a8d0", "u+a8d1", "u+a8d2", "u+a8d3", "u+a8d4", "u+a8d5", "u+a8d6", "u+a8d7", "u+a8d8", "u+a8d9">>,
       <<"u+A8D0", "u+A8D1", "u+A8D2", "u+A8D3", "u+A8D4", "u+A8D5", "u+A8D6", "u+A8D7", "u+A8D8", "u+A8D9">>,
       <<"u+a900", "u+a901", "u+a902", "u+a903", "u+a904", "u+a905", "u+a906", "u+a907", "u+a908", "u+a909">>,
       <<"u+A900", "u+A901", "u+A902", "u+A903", "u+A904", "u+A905", "u+A906", "u+A907", "u+A908", "u+A909">>,
       <<"u+a9d0", "u+a9d1", "u+a9d2", "u+a9d3", "u+a9d4", "u+a9d5", "u+a9d6", "u+a9d7", "u+a9d8", "u+a9d9">>,
       <<"u+A9D0", "u+A9D1", "u+A9D2", "u+A9D3", "u+A9D4", "u+A9D5", "u+A9D6", "u+A9D7", "u+A9D8", "u+A9D9">>,
       <<"u+a9f0", "u+a9f1", "u+a9f2", "u+a9f3", "u+a9f4", "u+a9f5", "u+a9f6", "u+a9f7", "u+a9f8", "u+a9f9">>,
       <<"u+A9F0", "u+A9F1", "u+A9F2", "u+A9F3", "u+A9F4", "u+A9F5", "u+A9F6", "u+A9F7", "u+A9F8", "u+A9F9">>,
       <<"u+aa50", "u+aa51", "u+aa52", "u+aa53", "u+aa54", "u+aa55", "u+aa56", "u+aa57", "u+aa58", "u+aa59">>,
       <<"u+AA50", "u+AA51", "u+AA52", "u+AA53", "u+AA54", "u+AA55", "u+AA56", "u+AA57", "u+AA58", "u+AA59">>,
       <<"u+abf0", "u+abf1", "u+abf2", "u+abf3", "u+abf4", "u+abf5", "u+abf6", "u+abf7", "u+abf8", "u+abf9">>,
       <<"u+ABF0", "u+ABF1", "u+ABF2", "u+ABF3", "u+ABF4", "u+ABF5", "u+ABF6", "u+ABF7", "u+ABF8", "u+ABF9">>,
       <<"u+ff10", "u+ff11", "u+ff12", "u+ff13", "u+ff14", "u+ff15", "u+ff16", "u+ff17", "u+ff18", "u+ff19">>,
       <<"u+FF10", "u+FF11", "u+FF12", "u+FF13", "u+FF14", "u+FF15", "u+FF16", "u+FF17", "u+FF18", "u+FF19">>,
       <<"u+104a0", "u+104a1", "u+104a2", "u+104a3", "u+104a4", "u+104a5", "u+104a6", "u+104a7", "u+104a8", "u+104a9">>,
       <<"u+104A0", "u+104A1", "u+104A2", "u+104A3", "u+104A4", "u+104A5", "u+104A6", "u+104A7", "u+104A8", "u+104A9">>,
       <<"u+10d30", "u+10d31", "u+10d32", "u+10d33", "u+10d34", "u+10d35", "u+10d36", "u+10d37", "u+10d38", "u+10d39">>,
       <<"u+10D30", "u+10D31", "u+10D32", "u+10D33", "u+10D34", "u+10D35", "u+10D36", "u+10D37", "u+10D38", "u+10D39">>,
       <<"u+11066", "u+11067", "u+11068", "u+11069", "u+1106a", "u+1106b", "u+1106c", "u+1106d", "u+1106e", "u+1106f">>,
       <<"u+11066", "u+11067", "u+11068", "u+11069", "u+1106A", "u+1106B", "u+1106C", "u+1106D", "u+1106E", "u+1106F">>,
       <<"u+110f0", "u+110f1", "u+110f2", "u+110f3", "u+110f4", "u+110f5", "u+110f6", "u+110f7", "u+110f8", "u+110f9">>,
       <<"u+110F0", "u+110F1", "u+110F2", "u+110F3", "u+110F4", "u+110F5", "u+110F6", "u+110F7", "u+110F8", "u+110F9">>,
       <<"u+11136", "u+11137", "u+11138", "u+11139", "u+1113a", "u+1113b", "u+1113c", "u+1113d", "u+1113e", "u+1113f">>,
       <<"u+11136", "u+11137", "u+11138", "u+11139", "u+1113A", "u+1113B", "u+1113C", "u+1113D", "u+1113E", "u+1113F">>,
       <<"u+111d0", "u+111d1", "u+111d2", "u+111d3", "u+111d4", "u+111d5", "u+111d6", "u+111d7", "u+111d8", "u+111d9">>,
       <<"u+111D0", "u+111D1", "u+111D2", "u+111D3", "u+111D4", "u+111D5", "u+111D6", "u+111D7", "u+111D8", "u+111D9">>,
       <<"u+112f0", "u+112f1", "u+112f2", "u+112f3", "u+112f4", "u+112f5", "u+112f6", "u+112f7", "u+112f8", "u+112f9">>,
       <<"u+112F0", "u+112F1", "u+112F2", "u+112F3", "u+112F4", "u+112F5", "u+112F6", "u+112F7", "u+112F8", "u+112F9">>,
       <<"u+11450", "u+11451", "u+11452", "u+11453", "u+11454", "u+11455", "u+11456", "u+11457", "u+11458", "u+11459">>,
       <<"u+114d0", "u+114d1", "u+114d2", "u+114d3", "u+114d4", "u+114d5", "u+114d6", "u+114d7", "u+114d8", "u+114d9">>,
       <<"u+114D0", "u+114D1", "u+114D2", "u+114D3", "u+114D4", "u+114D5", "u+114D6", "u+114D7", "u+114D8", "u+114D9">>,
       <<"u+11650", "u+11651", "u+11652", "u+11653", "u+11654", "u+11655", "u+11656", "u+11657", "u+11658", "u+11659">>,
       <<"u+116c0", "u+116c1", "u+116c2", "u+116c3", "u+116c4", "u+116c5", "u+116c6", "u+116c7", "u+116c8", "u+116c9">>,
       <<"u+116C0", "u+116C1", "u+116C2", "u+116C3", "u+116C4", "u+116C5", "u+116C6", "u+116C7", "u+116C8", "u+116C9">>,
       <<"u+11730", "u+11731", "u+11732", "u+11733", "u+11734", "u+11735", "u+11736", "u+11737", "u+11738", "u+11739">>,
       <<"u+118e0", "u+118e1", "u+118e2", "u+118e3", "u+118e4", "u+118e5", "u+118e6", "u+118e7", "u+118e8", "u+118e9">>,
       <<"u+118E0", "u+118E1", "u+118E2", "u+118E3", "u+118E4", "u+118E5", "u+118E6", "u+118E7", "u+118E8", "u+118E9">>,
       <<"u+11950", "u+11951", "u+11952", "u+11953", "u+11954", "u+11955", "u+11956", "u+11957", "u+11958", "u+11959">>,
       <<"u+11c50", "u+11c51", "u+11c52", "u+11c53", "u+11c54", "u+11c55", "u+11c56", "u+11c57", "u+11c58", "u+11c59">>,
       <<"u+11C50", "u+11C51", "u+11C52", "u+11C53", "u+11C54", "u+11C55", "u+11C56", "u+11C57", "u+11C58", "u+11C59">>,
       <<"u+11d50", "u+11d51", "u+11d52", "u+11d53", "u+11d54", "u+11d55", "u+11d56", "u+11d57", "u+11d58", "u+11d59">>,
       <<"u+11D50", "u+11D51", "u+11D52", "u+11D53", "u+11D54", "u+11D55", "u+11D56", "u+11D57", "u+11D58", "u+11D59">>,
       <<"u+11da0", "u+11da1", "u+11da2", "u+11da3", "u+11da4", "u+11da5", "u+11da6", "u+11da7", "u+11da8", "u+11da9">>,
       <<"u+11DA0", "u+11DA1", "u+11DA2", "u+11DA3", "u+11DA4", "u+11DA5", "u+11DA6", "u+11DA7", "u+11DA8", "u+11DA9">>,
       <<"u+16a60", "u+16a61", "u+16a62", "u+16a63", "u+16a64", "u+16a65", "u+16a66", "u+16a67", "u+16a68", "u+16a69">>,
       <<"u+16A60", "u+16A61", "u+16A62", "u+16A63", "u+16A64", "u+16A65", "u+16A66", "u+16A67", "u+16A68", "u+16A69">>,
       <<"u+16ac0", "u+16ac1", "u+16ac2", "u+16ac3", "u+16ac4", "u+16ac5", "u+16ac6", "u+16ac7", "u+16ac8", "u+16ac9">>,
       <<"u+16AC0", "u+16AC1", "u+16AC2", "u+16AC3", "u+16AC4", "u+16AC5", "u+16AC6", "u+16AC7", "u+16AC8", "u+16AC9">>,
       <<"u+16b50", "u+16b51", "u+16b52", "u+16b53", "u+16b54", "u+16b55", "u+16b56", "u+16b57", "u+16b58", "u+16b59">>,
       <<"u+16B50", "u+16B51", "u+16B52", "u+16B53", "u+16B54", "u+16B55", "u+16B56", "u+16B57", "u+16B58", "u+16B59">>,
       <<"u+1d7ce", "u+1d7cf", "u+1d7d0", "u+1d7d1", "u+1d7d2", "u+1d7d3", "u+1d7d4", "u+1d7d5", "u+1d7d6", "u+1d7d7">>,
       <<"u+1D7CE", "u+1D7CF", "u+1D7D0", "u+1D7D1", "u+1D7D2", "u+1D7D3", "u+1D7D4", "u+1D7D5", "u+1D7D6", "u+1D7D7">>,
       <<"u+1d7d8", "u+1d7d9", "u+1d7da", "u+1d7db", "u+1d7dc", "u+1d7dd", "u+1d7de", "u+1d7df", "u+1d7e0", "u+1d7e1">>,
       <<"u+1D7D8", "u+1D7D9", "u+1D7DA", "u+1D7DB", "u+1D7DC", "u+1D7DD", "u+1D7DE", "u+1D7DF", "u+1D7E0", "u+1D7E1">>,
       <<"u+1d7e2", "u+1d7e3", "u+1d7e4", "u+1d7e5", "u+1d7e6", "u+1d7e7", "u+1d7e8", "u+1d7e9", "u+1d7ea", "u+1d7eb">>,
       <<"u+1D7E2", "u+1D7E3", "u+1D7E4", "u+1D7E5", "u+1D7E6", "u+1D7E7", "u+1D7E8", "u+1D7E9", "u+1D7EA", "u+1D7EB">>,
       <<"u+1d7ec", "u+1d7ed", "u+1d7ee", "u+1d7ef", "u+1d7f0", "u+1d7f1", "u+1d7f2", "u+1d7f3", "u+1d7f4", "u+1d7f5">>,
       <<"u+1D7EC", "u+1D7ED", "u+1D7EE", "u+1D7EF", "u+1D7F0", "u+1D7F1", "u+1D7F2", "u+1D7F3", "u+1D7F4", "u+1D7F5">>,
       <<"u+1d7f6", "u+1d7f7", "u+1d7f8", "u+1d7f9", "u+1d7fa", "u+1d7fb", "u+1d7fc", "u+1d7fd", "u+1d7fe", "u+1d7ff">>,
       <<"u+1D7F6", "u+1D7F7", "u+1D7F8", "u+1D7F9", "u+1D7FA", "u+1D7FB", "u+1D7FC", "u+1D7FD", "u+1D7FE", "u+1D7FF">>,
       <<"u+1e140", "u+1e141", "u+1e142", "u+1e143", "u+1e144", "u+1e145", "u+1e146", "u+1e147", "u+1e148", "u+1e149">>,
       <<"u+1E140", "u+1E141", "u+1E142", "u+1E143", "u+1E144", "u+1E145", "u+1E146", "u+1E147", "u+1E148", "u+1E149">>,
       <<"u+1e2f0", "u+1e2f1", "u+1e2f2", "u+1e2f3", "u+1e2f4", "u+1e2f5", "u+1e2f6", "u+1e2f7", "u+1e2f8", "u+1e2f9">>,
       <<"u+1E2F0", "u+1E2F1", "u+1E2F2", "u+1E2F3", "u+1E2F4", "u+1E2F5", "u+1E2F6", "u+1E2F7", "u+1E2F8", "u+1E2F9">>,
       <<"u+1e950", "u+1e951", "u+1e952", "u+1e953", "u+1e954", "u+1e955", "u+1e956", "u+1e957", "u+1e958", "u+1e959">>,
       <<"u+1E950", "u+1E951", "u+1E952", "u+1E953", "u+1E954", "u+1E955", "u+1E956", "u+1E957", "u+1E958", "u+1E959">>,
       <<"u+1fbf0", "u+1fbf1", "u+1fbf2", "u+1fbf3", "u+1fbf4", "u+1fbf5", "u+1fbf6", "u+1fbf7", "u+1fbf8", "u+1fbf9">>,
       <<"u+1FBF0", "u+1FBF1", "u+1FBF2", "u+1FBF3", "u+1FBF4", "u+1FBF5", "u+1FBF6", "u+1FBF7", "u+1FBF8", "u+1FBF9">> >>

\* every character int() reads as a decimal digit
Digits ==
    UNION {{DecimalDigits[r][j] : j \in 1..10} : r \in 1..Len(DecimalDigits)}

DigitVal(c) ==
    LET row == DecimalDigits[CHOOSE r \in 1..Len(DecimalDigits) :
                                 \E j \in 1..10 : DecimalDigits[r][j] = c]
    IN  (CHOOSE j \in 1..10 : row[j] = c) - 1

\* the characters int() strips from both ends of a string; U+001C to U+001F,
\* which str.isspace() accepts, are not among them: int("\x1c5") raises
\* ValueError
Whitespace ==
    {" ", "\t", "\n", "\r", "\f",
     "u+000b", "u+000B", "u+0085", "u+00a0", "u+00A0", "u+1680",
     "u+2000", "u+2001", "u+2002", "u+2003", "u+2004", "u+2005",
     "u+2006", "u+2007", "u+2008", "u+2009", "u+200a", "u+200A",
     "u+2028", "u+2029", "u+202f", "u+202F", "u+205f", "u+205F",
     "u+3000"}

RECURSIVE LStrip(_)
LStrip(s) == IF s # <<>> /\ Head(s) \in Whitespace THEN LStrip(Tail(s)) ELSE s

RECURSIVE RStrip(_)
RStrip(s) ==
    IF s # <<>> /\ s[Len(s)] \in Whitespace
    THEN RStrip(SubSeq(s, 1, Len(s) - 1)) ELSE s

\* the digits part of an int literal: digits, single underscores between them
DigitsBody(b) ==
    /\ b # <<>>
    /\ \A j \in 1..Len(b) : b[j] \in Digits \/ b[j] = "_"
    /\ b[1] \in Digits
    /\ b[Len(b)] \in Digits
    /\ \A j \in 1..(Len(b) - 1) : ~(b[j] = "_" /\ b[j + 1] = "_")

RECURSIVE BodyVal(_, _)
BodyVal(b, acc) ==
    IF b = <<>> THEN acc
    ELSE IF Head(b) = "_" THEN BodyVal(Tail(b), acc)
    ELSE BodyVal(Tail(b), 10 * acc + DigitVal(Head(b)))

\* sys.get_int_max_str_digits(), as the interpreter starts: the most digits,
\* leading zeros counted and underscores not, int() converts from a string
int_max_str_digits == 4300

\* int(str): [ok |-> TRUE, n |-> value] or ok = FALSE for a ValueError, which
\* a literal of too many digits and a literal that is no integer both raise;
\* the value is the one of the digits from the first that is not a zero
IntOfStr(chars) ==
    LET st == RStrip(LStrip(chars))
        signed == st # <<>> /\ Head(st) \in {"+", "-"}
        body == IF signed THEN Tail(st) ELSE st
        nonzero == {j \in 1..Len(body) :
                       body[j] \in Digits /\ DigitVal(body[j]) # 0}
        magnitude ==
            IF nonzero = {} THEN 0
            ELSE BodyVal(SubSeq(body,
                                CHOOSE j \in nonzero : \A x \in nonzero : j <= x,
                                Len(body)), 0)
    IN IF Cardinality({j \in 1..Len(body) : body[j] \in Digits})
             > int_max_str_digits
       THEN [ok |-> FALSE, n |-> 0]
       ELSE IF DigitsBody(body)
       THEN [ok |-> TRUE,
             n |-> IF signed /\ Head(st) = "-" THEN 0 - magnitude
                   ELSE magnitude]
       ELSE [ok |-> FALSE, n |-> 0]

\* int(float) truncates toward zero
Trunc(num, den) == IF num >= 0 THEN num \div den ELSE 0 - ((0 - num) \div den)

\* int(value) inside the try of transform_and_load:
\*   "ok"    the value converts, n is the integer
\*   "drop"  ValueError or TypeError, caught: the field is skipped
\*   "raise" any other exception (OverflowError of an infinite float)
PyInt(v) ==
    CASE v.t = "int" -> [r |-> "ok", n |-> v.n]
      [] v.t = "float" -> [r |-> "ok", n |-> Trunc(v.n, v.d)]
      [] v.t = "str" -> IF IntOfStr(v.s).ok
                        THEN [r |-> "ok", n |-> IntOfStr(v.s).n]
                        ELSE [r |-> "drop", n |-> 0]
      [] v.t = "nan" -> [r |-> "drop", n |-> 0]
      [] v.t = "list" -> [r |-> "drop", n |-> 0]
      [] v.t = "inf" -> [r |-> "raise", n |-> 0]
      [] v.t = "null" -> [r |-> "drop", n |-> 0]

\* the filter of line 92
Skipped(v) == v.t = "null" \/ (v.t = "str" /\ v.s = NoneSentinel)

(***************************************************************************)
(* Provider payloads                                                       *)
(***************************************************************************)
Item(key, value) == [key |-> key, value |-> value]

Report(date, items) == [fiscalDateEnding |-> date, items |-> items]

\* a decoded JSON object: the keys it has and the values of the keys the
\* pipeline reads
Payload(keys, name, information, reports) ==
    [keys |-> keys, Name |-> name, Information |-> information,
     annualReports |-> reports]

(***************************************************************************)
(* transform_and_load, first half: normalisation                           *)
(***************************************************************************)
\* position at which sorted(..., reverse=True) places x among the already
\* sorted earlier reports: after every report whose date is not smaller
RECURSIVE InsertDesc(_, _)
InsertDesc(x, sorted) ==
    IF sorted = <<>> THEN <<x>>
    ELSE IF Head(sorted).fiscalDateEnding >= x.fiscalDateEnding
         THEN <<Head(sorted)>> \o InsertDesc(x, Tail(sorted))
         ELSE <<x>> \o sorted

RECURSIVE SortedDesc(_)
SortedDesc(reports) ==
    IF reports = <<>> THEN <<>>
    ELSE InsertDesc(reports[Len(reports)],
                    SortedDesc(SubSeq(reports, 1, Len(reports) - 1)))

FirstN(s, m) == SubSeq(s, 1, IF Len(s) < m THEN Len(s) ELSE m)

\* variant: the reports are cut to three without being sorted
annual_reports_Unsorted(payload) == FirstN(payload.annualReports, KeepReports)

annual_reports(payload) == FirstN(SortedDesc(payload.annualReports), KeepReports)

Row(cid, stype, date, metric, value) ==
    [company_id |-> cid, statement_type |-> stype, fiscal_date_ending |-> date,
     metric_name |-> metric, metric_value |-> value]

\* the records of one report, in the order of report.items()
RECURSIVE ReportRecords(_, _, _, _)
ReportRecords(items, date, cid, stype) ==
    IF items = <<>> THEN <<>>
    ELSE LET it == Head(items)
             rest == ReportRecords(Tail(items), date, cid, stype)
         IN IF ~Skipped(it.value) /\ PyInt(it.value).r = "ok"
            THEN <<Row(cid, stype, date, it.key, PyInt(it.value).n)>> \o rest
            ELSE rest

RECURSIVE AllRecords(_, _, _)
AllRecords(reports, cid, stype) ==
    IF reports = <<>> THEN <<>>
    ELSE ReportRecords(Head(reports).items, Head(reports).fiscalDateEnding,
                       cid, stype)
         \o AllRecords(Tail(reports), cid, stype)

\* an exception other than ValueError/TypeError leaves the loop of line 91
ItemRaises(it) == ~Skipped(it.value) /\ PyInt(it.value).r = "raise"

Raises(payload) ==
    /\ "annualReports" \in payload.keys
    /\ \E j \in 1..Len(annual_reports(payload)) :
         \E m \in 1..Len(annual_reports(payload)[j].items) :
            ItemRaises(annual_reports(payload)[j].items[m])

\* lines 81-106: the list `records`
Normalize(payload, cid, stype) ==
    IF "annualReports" \notin payload.keys THEN <<>>
    ELSE AllRecords(annual_reports(payload), cid, stype)

(***************************************************************************)
(* transform_and_load, second half: INSERT ... ON CONFLICT DO NOTHING      *)
(***************************************************************************)
\* variant: the uniqueness constraint also covers metric_value
SameKey_WithValue(a, b) ==
    /\ a.company_id = b.company_id
    /\ a.statement_type = b.statement_type
    /\ a.fiscal_date_ending = b.fiscal_date_ending
    /\ a.metric_name = b.metric_name
    /\ a.metric_value = b.metric_value

SameKey(a, b) ==
    /\ a.company_id = b.company_id
    /\ a.statement_type = b.statement_type
    /\ a.fiscal_date_ending = b.fiscal_date_ending
    /\ a.metric_name = b.metric_name

\* variant: a plain INSERT into a table without the constraint
Conflicts_Never(r, table) == FALSE

Conflicts(r, table) == \E j \in 1..Len(table) : SameKey(table[j], r)

\* variant: conflicts are looked up in the table as it was before the
\* statement, not among the rows the statement already added
Inserted_BatchBlind(table, recs) ==
    SelectSeq(recs, LAMBDA r : ~Conflicts(r, table))

\* the rows the statement of lines 113-119 adds to `table`, in the order of
\* the temporary table
RECURSIVE Inserted(_, _)
Inserted(table, recs) ==
    IF recs = <<>> THEN <<>>
    ELSE IF Conflicts(Head(recs), table) THEN Inserted(table, Tail(recs))
    ELSE <<Head(recs)>> \o Inserted(table \o <<Head(recs)>>, Tail(recs))

Upsert(table, recs) == table \o Inserted(table, recs)

\* variant: the count of the rows offered to the insert, conflicts included
Rowcount_Attempted(table, recs) == Len(recs)

Rowcount(table, recs) == Len(Inserted(table, recs))

(***************************************************************************)
(* The provider: responses to the HTTP GET of lines 61 and 74              *)
(***************************************************************************)
Chars(n) ==
    CASE n = 0 -> <<"0">> [] n = 5 -> <<"5">> [] n = 7 -> <<"7">>
      [] n = 8 -> <<"8">> [] n = 9 -> <<"9">> [] n = 12 -> <<"1", "2">>

NoInformation == <<>>

\* 'Our standard API call frequency is 5 calls per minute.'
LimitMessage ==
    <<"O", "u", "r", " ", "s", "t", "a", "n", "d", "a", "r", "d", " ", "A",
      "P", "I", " ", "c", "a", "l", "l", " ", "f", "r", "e", "q", "u", "e",
      "n", "c", "y", " ", "i", "s", " ", "5", " ", "c", "a", "l", "l", "s",
      " ", "p", "e", "r", " ", "m", "i", "n", "u", "t", "e", ".">>

\* three periods; a negative value, a "None" sentinel and a bad literal
PayA ==
    Payload({"symbol", "annualReports"}, "", NoInformation,
        << Report(2022, << Item("totalRevenue", JStr(Chars(5))),
                           Item("netIncome", JStr(<<"-", "7">>)) >>),
           Report(2023, << Item("totalRevenue", JStr(Chars(7))),
                           Item("netIncome", JStr(NoneSentinel)),
                           Item("grossProfit", JStr(<<"1", ".", "5">>)) >>) >>)

\* a restatement of 2023 and two reports that carry the same period
PayB ==
    Payload({"symbol", "annualReports"}, "", NoInformation,
        << Report(2023, << Item("totalRevenue", JStr(Chars(8))) >>),
           Report(2023, << Item("totalRevenue", JStr(Chars(9))),
                           Item("netIncome", JInt(12)) >>) >>)

\* no reports collection; a message that is not the limit message:
\* 'Invalid API  call frequency.', the words of the phrase two spaces apart
PayNote ==
    Payload({"Information"}, "",
        <<"I", "n", "v", "a", "l", "i", "d", " ", "A", "P", "I", " ", " ", "c",
          "a", "l", "l", " ", "f", "r", "e", "q", "u", "e", "n", "c", "y", ".">>,
        <<>>)

\* the throttle signal
PayLimit ==
    Payload({"Information"}, "", LimitMessage, <<>>)

\* a number too large for a float (1e999) decodes to infinity
PayInf ==
    Payload({"symbol", "annualReports"}, "", NoInformation,
        << Report(2023, << Item("totalRevenue", JInf),
                           Item("netIncome", JStr(Chars(5))) >>) >>)

PayOverview ==
    Payload({"Symbol", "Name"}, "Acme Corp", NoInformation, <<>>)

\* what requests.get gives: a response with its status and decoded body;
\* raises names the exception of a call that gives none (ConnectionError,
\* raised by requests.get) or of a body that is not JSON (JSONDecodeError,
\* raised by response.json())
Response(status, body) ==
    [status_code |-> status, json |-> body, raises |-> "none"]

StatementResponses ==
    { Response(200, p) : p \in {PayA, PayB, PayNote, PayLimit, PayInf} }
    \cup { Response(503, PayNote) }
    \cup { [Response(0, Payload({}, "", NoInformation, <<>>))
               EXCEPT !.raises = "ConnectionError"],
           [Response(200, Payload({}, "", NoInformation, <<>>))
               EXCEPT !.raises = "JSONDecodeError"] }

OverviewResponses ==
    { Response(200, p) : p \in {PayOverview, PayLimit} }
    \cup { Response(503, PayNote) }
    \cup { [Response(0, Payload({}, "", NoInformation, <<>>))
               EXCEPT !.raises = "ConnectionError"],
           [Response(200, Payload({}, "", NoInformation, <<>>))
               EXCEPT !.raises = "JSONDecodeError"] }

\* responses the model does not count against MaxFaults
Nominal(resp) == resp \in {Response(200, PayA), Response(200, PayOverview)}

\* response.raise_for_status()
HTTPError(resp) == resp.status_code >= 400 /\ resp.status_code < 600

\* 'API call frequency' in data['Information']: phrase is a substring of text
HasPhrase(text, phrase) ==
    \E j \in 1..(Len(text) - Len(phrase) + 1) :
        SubSeq(text, j, j + Len(phrase) - 1) = phrase

\* variant: any Information field is taken for the limit message
LimitReached_AnyInformation(payload) == "Information" \in payload.keys

LimitReached(payload) ==
    "Information" \in payload.keys /\ HasPhrase(payload.Information, LimitPhrase)

\* variant: only the truth value of the payload is tested
Loadable_NonEmpty(payload) == payload.keys # {}

\* `data and "annualReports" in data`
Loadable(payload) == payload.keys # {} /\ "annualReports" \in payload.keys

(***************************************************************************)
(* State                                                                   *)
(***************************************************************************)
VARIABLES
    companies,             \* committed rows of table companies
    financial_statements,  \* committed rows of table financial_statements
    companies_id_seq,      \* last value drawn from the sequence of companies.id
    txn,                   \* rows inserted by the open transaction
    pc,                    \* position of the run in main()
    run,                   \* number of the pipeline run
    ti,                    \* index of `ticker` in COMPANIES
    k,                     \* index of `statement_type` in the dict statements
    company_id,
    company_info,
    statements,
    data,
    records,
    rows,
    total_rows_loaded,
    error,                 \* the exception that ended the run
    log,                   \* requests, sleeps, loads and commits of the run
    faults,                \* number of non-nominal responses and failures
    app,                   \* the dashboard script that runs
    export_pc,             \* position of export_data.py in export_data()
    export_df,             \* the frame export_data() read from the database
    financial_data_csv,    \* the file export_data.py writes
    cache,                 \* what st.cache_data holds of load_data()
    df,                    \* the pivoted frame load_data() returns
    selected_ticker,
    metrics_df,            \* the frame calculate_metrics() returns
    formatted_df           \* the table of formatted metrics

vars == <<companies, financial_statements, companies_id_seq, txn,
          pc, run, ti, k, company_id,
          company_info, statements, data, records, rows, total_rows_loaded,
          error, log, faults, app, export_pc, export_df,
          financial_data_csv, cache, df,
          selected_ticker, metrics_df, formatted_df>>

\* the state of the dashboard scripts
dashboard ==
    <<app, export_pc, export_df, financial_data_csv, cache, df,
      selected_ticker, metrics_df, formatted_df>>

\* the file does not exist; a file that exists holds a header line, the
\* names of its columns, and rows, or nothing at all
NoFile == [exists |-> FALSE, header |-> <<>>, rows |-> <<>>]

\* load_data() has not returned yet
NotCached == [hit |-> FALSE, value |-> <<>>]



\* no dashboard script has run
DashboardIdle ==
    /\ app = "none"
    /\ export_pc = "idle"
    /\ export_df = <<>>
    /\ financial_data_csv = NoFile
    /\ cache = NotCached
    /\ df = <<>>
    /\ selected_ticker = ""
    /\ metrics_df = <<>>
    /\ formatted_df = <<>>

NoData == Payload({}, "", NoInformation, <<>>)

NoInfo == [ticker |-> "", name |-> ""]

\* an entry of the log; info is the Information field of a response
Ev(op, tk, fn, secs, info) ==
    [op |-> op, ticker |-> tk, fn |-> fn, secs |-> secs, info |-> info]

Requested(tk, fn, resp) ==
    Ev("request", tk, fn, 0,
       IF "Information" \in resp.json.keys THEN resp.json.Information
       ELSE NoInformation)

\* variant: the call returns at once
Slept_Immediately(tk, fn, secs) == Ev("sleep", tk, fn, 0, NoInformation)

Slept(tk, fn, secs) == Ev("sleep", tk, fn, secs, NoInformation)

Did(op, tk, fn) == Ev(op, tk, fn, 0, NoInformation)

ticker == COMPANIES[ti]

statement_type == STATEMENT_TYPES[k]

Init ==
    /\ companies = <<>>
    /\ companies_id_seq = 0
    /\ financial_statements = <<>>
    /\ txn = <<>>
    /\ pc = "start"
    /\ run = 1
    /\ ti = 1
    /\ k = 1
    /\ company_id = 0
    /\ company_info = NoInfo
    /\ statements = [j \in 1..3 |-> NoData]
    /\ data = NoData
    /\ records = <<>>
    /\ rows = 0
    /\ total_rows_loaded = 0
    /\ error = "none"
    /\ log = <<>>
    /\ faults = 0
    /\ DashboardIdle

\* connection.commit(): the rows of the open transaction become durable
Commit(committed, pending) == committed \o pending

\* variant: every inserted row is committed on its own, the first row of the
\* batch is durable when the failure comes
Rollback_Partial(committed, pending) ==
    committed \o SubSeq(pending, 1, IF Len(pending) < 1 THEN Len(pending) ELSE 1)

\* the connection is closed without a commit
Rollback(committed, pending) == committed

\* the cost of a response or failure against the fault budget; the response
\* to the retry of a throttled call belongs to the fault of that call
Budget(cost) == /\ faults + cost <= MaxFaults
                /\ faults' = faults + cost

Cost(resp) == IF Nominal(resp) THEN 0 ELSE 1

\* an uncaught exception leaves `with engine.connect()`: the open
\* transaction is rolled back and the process ends
Abort(exc, pending) ==
    /\ pc' = "aborted"
    /\ error' = exc
    /\ financial_statements' = Rollback(financial_statements, pending)
    /\ txn' = <<>>

\* the end of one iteration of the loop of line 153
NextStep ==
    IF k < Len(STATEMENT_TYPES)
    THEN /\ k' = k + 1 /\ pc' = "loop" /\ ti' = ti
    ELSE IF ti < Len(COMPANIES)
    THEN /\ k' = 1 /\ pc' = "lookup" /\ ti' = ti + 1
    ELSE /\ k' = 1 /\ pc' = "done" /\ ti' = ti

(***************************************************************************)
(* main()                                                                  *)
(***************************************************************************)
\* lines 124-127: the tables exist after the first run
setup_database ==
    /\ pc = "start"
    /\ pc' = "lookup"
    /\ total_rows_loaded' = 0
    /\ ti' = 1
    /\ UNCHANGED <<companies, financial_statements, txn, run, k, company_id,
                   company_info, statements, data, records, rows, error, log,
                   faults>>
    /\ UNCHANGED companies_id_seq
    /\ UNCHANGED dashboard

\* variant: the lookup never finds the company
CompanyIdOf_NotFound(tk) == 0

CompanyIdOf(tk) ==
    IF \E j \in 1..Len(companies) : companies[j].ticker = tk
    THEN companies[CHOOSE j \in 1..Len(companies) : companies[j].ticker = tk].id
    ELSE 0

\* lines 132-134, 143-144
main_lookup ==
    /\ pc = "lookup"
    /\ company_id' = CompanyIdOf(ticker)
    /\ pc' = IF CompanyIdOf(ticker) = 0 THEN "fetch_info" ELSE "fetch"
    /\ k' = 1
    /\ UNCHANGED <<companies, financial_statements, txn, run, ti, company_info,
                   statements, data, records, rows, total_rows_loaded, error,
                   log, faults>>
    /\ UNCHANGED companies_id_seq
    /\ UNCHANGED dashboard

\* line 135 and fetch_company_info, lines 57-68
main_fetch_company_info ==
    /\ pc = "fetch_info"
    /\ \E resp \in OverviewResponses :
         /\ Budget(Cost(resp))
         /\ \/ /\ resp.raises = "ConnectionError"
               /\ Abort("ConnectionError", txn)
               /\ log' = Append(log, Requested(ticker, "OVERVIEW", resp))
               /\ UNCHANGED company_info
            \/ /\ resp.raises # "ConnectionError"
               /\ HTTPError(resp)
               /\ Abort("HTTPError", txn)
               /\ log' = Append(log, Requested(ticker, "OVERVIEW", resp))
               /\ UNCHANGED company_info
            \* the cooldown of line 63 comes before response.json()
            \/ /\ resp.raises = "JSONDecodeError"
               /\ ~HTTPError(resp)
               /\ Abort("JSONDecodeError", txn)
               /\ log' = log \o << Requested(ticker, "OVERVIEW", resp),
                                   Slept(ticker, "OVERVIEW", CooldownSeconds) >>
               /\ UNCHANGED company_info
            \/ /\ resp.raises = "none"
               /\ ~HTTPError(resp)
               /\ log' = log \o << Requested(ticker, "OVERVIEW", resp),
                                   Slept(ticker, "OVERVIEW", CooldownSeconds) >>
               /\ company_info' =
                    [ticker |-> ticker,
                     name |-> IF "Name" \in resp.json.keys
                              THEN resp.json.Name ELSE ticker]
               /\ pc' = "insert_company"
               /\ UNCHANGED <<error, txn, financial_statements>>
    /\ UNCHANGED <<companies, run, ti, k, company_id,
                   statements, data, records, rows, total_rows_loaded>>
    /\ UNCHANGED companies_id_seq
    /\ UNCHANGED dashboard

\* lines 136-142
main_insert_company ==
    /\ pc = "insert_company"
    /\ \/ /\ companies_id_seq' = companies_id_seq + 1
          /\ companies' = Append(companies,
                [id |-> companies_id_seq + 1, ticker |-> company_info.ticker,
                 name |-> company_info.name])
          /\ company_id' = companies_id_seq + 1
          /\ pc' = "fetch"
          /\ k' = 1
          /\ UNCHANGED <<error, txn, faults, financial_statements>>
       \* the statement fails before it draws the id (the sequence stays),
       \* or the commit of line 140 fails after it: a rollback does not
       \* give a sequence value back
       \/ /\ Budget(1)
          /\ Abort("DBAPIError", txn)
          /\ companies_id_seq' \in {companies_id_seq, companies_id_seq + 1}
          /\ UNCHANGED <<companies, company_id, k>>
    /\ UNCHANGED <<run, ti, company_info, statements,
                   data, records, rows, total_rows_loaded, log>>
    /\ UNCHANGED dashboard

\* variant: each statement is loaded right after its own fetch
main_fetch_statement_Interleaved ==
    /\ pc = "fetch"
    /\ \E resp \in StatementResponses :
         /\ Budget(Cost(resp))
         /\ \/ /\ resp.raises = "ConnectionError"
               /\ Abort("ConnectionError", txn)
               /\ log' = Append(log, Requested(ticker, statement_type, resp))
               /\ UNCHANGED <<statements, k>>
            \/ /\ resp.raises # "ConnectionError"
               /\ HTTPError(resp)
               /\ Abort("HTTPError", txn)
               /\ log' = Append(log, Requested(ticker, statement_type, resp))
               /\ UNCHANGED <<statements, k>>
            \* the cooldown of line 76 comes before response.json()
            \/ /\ resp.raises = "JSONDecodeError"
               /\ ~HTTPError(resp)
               /\ Abort("JSONDecodeError", txn)
               /\ log' = log \o << Requested(ticker, statement_type, resp),
                                   Slept(ticker, statement_type, CooldownSeconds) >>
               /\ UNCHANGED <<statements, k>>
            \/ /\ resp.raises = "none"
               /\ ~HTTPError(resp)
               /\ log' = log \o << Requested(ticker, statement_type, resp),
                                   Slept(ticker, statement_type, CooldownSeconds) >>
               /\ statements' = [statements EXCEPT ![k] = resp.json]
               /\ k' = k
               /\ pc' = "loop"
               /\ UNCHANGED <<error, txn, financial_statements>>
    /\ UNCHANGED <<companies, run, ti, company_id,
                   company_info, data, records, rows, total_rows_loaded>>
    /\ UNCHANGED companies_id_seq
    /\ UNCHANGED dashboard

\* lines 147-151 and fetch_financial_statement, lines 70-77: the three
\* values of the dict are evaluated in order before the loop of line 153
main_fetch_statement ==
    /\ pc = "fetch"
    /\ \E resp \in StatementResponses :
         /\ Budget(Cost(resp))
         /\ \/ /\ resp.raises = "ConnectionError"
               /\ Abort("ConnectionError", txn)
               /\ log' = Append(log, Requested(ticker, statement_type, resp))
               /\ UNCHANGED <<statements, k>>
            \/ /\ resp.raises # "ConnectionError"
               /\ HTTPError(resp)
               /\ Abort("HTTPError", txn)
               /\ log' = Append(log, Requested(ticker, statement_type, resp))
               /\ UNCHANGED <<statements, k>>
            \* the cooldown of line 76 comes before response.json()
            \/ /\ resp.raises = "JSONDecodeError"
               /\ ~HTTPError(resp)
               /\ Abort("JSONDecodeError", txn)
               /\ log' = log \o << Requested(ticker, statement_type, resp),
                                   Slept(ticker, statement_type, CooldownSeconds) >>
               /\ UNCHANGED <<statements, k>>
            \/ /\ resp.raises = "none"
               /\ ~HTTPError(resp)
               /\ log' = log \o << Requested(ticker, statement_type, resp),
                                   Slept(ticker, statement_type, CooldownSeconds) >>
               /\ statements' = [statements EXCEPT ![k] = resp.json]
               /\ IF k < Len(STATEMENT_TYPES)
                  THEN k' = k + 1 /\ pc' = "fetch"
                  ELSE k' = 1 /\ pc' = "loop"
               /\ UNCHANGED <<error, txn, financial_statements>>
    /\ UNCHANGED <<companies, run, ti, company_id,
                   company_info, data, records, rows, total_rows_loaded>>
    /\ UNCHANGED companies_id_seq
    /\ UNCHANGED dashboard

\* lines 153-157: the head of one iteration and the check for the limit message
main_check_limit ==
    /\ pc = "loop"
    /\ data' = statements[k]
    /\ IF LimitReached(statements[k])
       THEN /\ log' = Append(log, Slept(ticker, statement_type,
                                        ThrottleWaitSeconds))
            /\ pc' = "retry"
       ELSE /\ log' = log
            /\ pc' = "load"
    /\ UNCHANGED <<companies, financial_statements, txn, run, ti, k, company_id,
                   company_info, statements, records, rows, total_rows_loaded,
                   error, faults>>
    /\ UNCHANGED companies_id_seq
    /\ UNCHANGED dashboard

\* line 158: statement_type.upper() is the key itself, the keys are upper case
main_retry ==
    /\ pc = "retry"
    /\ \E resp \in StatementResponses :
         /\ Budget(0)
         /\ \/ /\ resp.raises = "ConnectionError"
               /\ Abort("ConnectionError", txn)
               /\ log' = Append(log, Requested(ticker, statement_type, resp))
               /\ UNCHANGED data
            \/ /\ resp.raises # "ConnectionError"
               /\ HTTPError(resp)
               /\ Abort("HTTPError", txn)
               /\ log' = Append(log, Requested(ticker, statement_type, resp))
               /\ UNCHANGED data
            \/ /\ resp.raises = "JSONDecodeError"
               /\ ~HTTPError(resp)
               /\ Abort("JSONDecodeError", txn)
               /\ log' = log \o << Requested(ticker, statement_type, resp),
                                   Slept(ticker, statement_type, CooldownSeconds) >>
               /\ UNCHANGED data
            \/ /\ resp.raises = "none"
               /\ ~HTTPError(resp)
               /\ log' = log \o << Requested(ticker, statement_type, resp),
                                   Slept(ticker, statement_type, CooldownSeconds) >>
               /\ data' = resp.json
               /\ pc' = "load"
               /\ UNCHANGED <<error, txn, financial_statements>>
    /\ UNCHANGED <<companies, run, ti, k, company_id,
                   company_info, statements, records, rows, total_rows_loaded>>
    /\ UNCHANGED companies_id_seq
    /\ UNCHANGED dashboard

\* lines 160-161 and 165-166, with transform_and_load, lines 79-120; the
\* storage may fail when the statement has inserted some rows of the batch
main_load ==
    /\ pc = "load"
    /\ \/ /\ Loadable(data)
          /\ ~Raises(data)
          /\ records' = Normalize(data, company_id, statement_type)
          /\ txn' = Inserted(financial_statements,
                             Normalize(data, company_id, statement_type))
          /\ rows' = Rowcount(financial_statements,
                              Normalize(data, company_id, statement_type))
          /\ log' = Append(log, Did("load", ticker, statement_type))
          /\ pc' = "commit"
          /\ UNCHANGED <<error, faults, k, ti, financial_statements>>
       \/ /\ Loadable(data)
          /\ Raises(data)
          /\ Abort("OverflowError", txn)
          /\ UNCHANGED <<records, rows, log, faults, k, ti>>
       \/ /\ Loadable(data)
          /\ ~Raises(data)
          /\ Normalize(data, company_id, statement_type) # <<>>
          /\ Budget(1)
          /\ \E m \in 0..Rowcount(financial_statements,
                                  Normalize(data, company_id, statement_type)) :
                Abort("DBAPIError",
                      FirstN(Inserted(financial_statements,
                                      Normalize(data, company_id, statement_type)),
                             m))
          /\ records' = Normalize(data, company_id, statement_type)
          /\ UNCHANGED <<rows, log, k, ti>>
       \/ /\ ~Loadable(data)
          /\ log' = Append(log, Did("skip", ticker, statement_type))
          /\ NextStep
          /\ UNCHANGED <<records, rows, txn, error, faults,
                         financial_statements>>
    /\ UNCHANGED <<companies, run, company_id,
                   company_info, statements, data, total_rows_loaded>>
    /\ UNCHANGED companies_id_seq
    /\ UNCHANGED dashboard

\* lines 162-164
main_commit ==
    /\ pc = "commit"
    /\ \/ /\ financial_statements' = Commit(financial_statements, txn)
          /\ txn' = <<>>
          /\ total_rows_loaded' = total_rows_loaded + rows
          /\ log' = Append(log, Did("commit", ticker, statement_type))
          /\ NextStep
          /\ UNCHANGED <<error, faults>>
       \/ /\ Budget(1)
          /\ Abort("DBAPIError", txn)
          /\ UNCHANGED <<total_rows_loaded, log, k, ti>>
    /\ UNCHANGED <<companies, run, company_id, company_info, statements, data,
                   records, rows>>
    /\ UNCHANGED companies_id_seq
    /\ UNCHANGED dashboard

\* the scheduler starts the script again
next_run ==
    /\ pc \in {"done", "aborted"}
    /\ run < MaxRuns
    /\ run' = run + 1
    /\ pc' = "start"
    /\ ti' = 1
    /\ k' = 1
    /\ company_id' = 0
    /\ company_info' = NoInfo
    /\ statements' = [j \in 1..3 |-> NoData]
    /\ data' = NoData
    /\ records' = <<>>
    /\ rows' = 0
    /\ total_rows_loaded' = 0
    /\ error' = "none"
    /\ log' = <<>>
    /\ UNCHANGED <<companies, financial_statements, txn, faults>>
    /\ UNCHANGED companies_id_seq
    /\ UNCHANGED dashboard

Next ==
    \/ setup_database
    \/ main_lookup
    \/ main_fetch_company_info
    \/ main_insert_company
    \/ main_fetch_statement
    \/ main_check_limit
    \/ main_retry
    \/ main_load
    \/ main_commit
    \/ next_run

Spec == Init /\ [][Next]_vars

(***************************************************************************)
(* The normaliser alone, on every payload built from a set of reports      *)
(***************************************************************************)
SampleReports ==
    { Report(2020, << Item("totalRevenue", JStr(Chars(5))),
                      Item("netIncome",
                           JStr([j \in 1..(int_max_str_digits + 1) |->
                                   IF j <= int_max_str_digits THEN "0"
                                   ELSE "5"])) >>),
      Report(2021, << Item("totalRevenue", JStr(Chars(7))),
                      Item("netIncome", JNull) >>),
      Report(2022, << Item("totalRevenue", JStr(NoneSentinel)),
                      Item("netIncome", JStr(<<"-", "7">>)),
                      Item("grossProfit", JStr(<<"\t", "1", "_", "u+0662", "u+00a0">>)) >>),
      Report(2023, << Item("totalRevenue", JFloat(0 - 3, 2)),
                      Item("netIncome", JList),
                      Item("grossProfit", JStr(<<"1", ".", "5">>)) >>),
      Report(2023, << Item("totalRevenue", JStr(Chars(9))),
                      Item("netIncome", JNaN) >>),
      Report(2024, << Item("totalRevenue", JInf),
                      Item("netIncome", JStr(<<"+", "8">>)) >>) }

SamplePayloads ==
    { Payload({"symbol", "annualReports"}, "", NoInformation, reports) :
        reports \in UNION { [1..len -> SampleReports] : len \in 0..MaxReports } }
    \cup {PayNote}

InitNormalize ==
    /\ companies = <<>>
    /\ companies_id_seq = 0
    /\ financial_statements = <<>>
    /\ txn = <<>>
    /\ pc = "normalize"
    /\ run = 1
    /\ ti = 1
    /\ k = 1
    /\ company_id = 1
    /\ company_info = NoInfo
    /\ statements = [j \in 1..3 |-> NoData]
    /\ data \in SamplePayloads
    /\ records = <<>>
    /\ rows = 0
    /\ total_rows_loaded = 0
    /\ error = "none"
    /\ log = <<>>
    /\ faults = 0
    /\ DashboardIdle

\* lines 81-106 of transform_and_load ended normally
normalize_returns ==
    /\ pc = "normalize"
    /\ ~Raises(data)
    /\ records' = Normalize(data, company_id, statement_type)
    /\ pc' = "normalized"
    /\ UNCHANGED <<companies, financial_statements, txn, run, ti, k,
                   company_id, company_info, statements, data, rows,
                   total_rows_loaded, error, log, faults>>
    /\ UNCHANGED companies_id_seq
    /\ UNCHANGED dashboard

\* int() raised an exception the except clause of line 102 does not name
normalize_raises ==
    /\ pc = "normalize"
    /\ Raises(data)
    /\ error' = "OverflowError"
    /\ pc' = "normalized"
    /\ UNCHANGED <<companies, financial_statements, txn, run, ti, k,
                   company_id, company_info, statements, data, records, rows,
                   total_rows_loaded, log, faults>>
    /\ UNCHANGED companies_id_seq
    /\ UNCHANGED dashboard

NextNormalize == normalize_returns \/ normalize_raises

SpecNormalize == InitNormalize /\ [][NextNormalize]_vars

(***************************************************************************)
(* The dashboards: float64 values of a frame                               *)
(*                                                                         *)
(* pandas holds the metric columns as IEEE 754 binary64 numbers.  A finite *)
(* number is sign s, mantissa m and exponent e, of value s * m * 2^e, the  *)
(* mantissa a natural number of exactly MantissaBits bits, or no bits for  *)
(* a zero.  A natural number is the sequence of its limbs, each of         *)
(* LimbBits bits, the least significant first, the most significant not 0. *)
(* Every operation rounds its exact result to the nearest float64, to the  *)
(* one with an even mantissa when two are nearest.  The operations stay    *)
(* away from the subnormal numbers: stored values are integers and 1e-9 is *)
(* the only other operand.                                                 *)
(***************************************************************************)
LimbBits == 15

Base == 2 ^ LimbBits

MantissaBits == 53

Abs(x) == IF x < 0 THEN -x ELSE x

Limb(a, i) == IF i <= Len(a) THEN a[i] ELSE 0

RECURSIVE Trim(_)
Trim(a) ==
    IF a # <<>> /\ a[Len(a)] = 0 THEN Trim(SubSeq(a, 1, Len(a) - 1)) ELSE a

RECURSIVE BigOf(_)
BigOf(n) == IF n = 0 THEN <<>> ELSE <<n % Base>> \o BigOf(n \div Base)

RECURSIVE BigAddC(_, _, _)
BigAddC(a, b, c) ==
    IF a = <<>> /\ b = <<>> THEN BigOf(c)
    ELSE LET t == Limb(a, 1) + Limb(b, 1) + c
         IN  <<t % Base>> \o BigAddC(SubSeq(a, 2, Len(a)), SubSeq(b, 2, Len(b)), t \div Base)

RECURSIVE BigSubB(_, _, _)
BigSubB(a, b, c) ==
    IF a = <<>> THEN <<>>
    ELSE LET t == a[1] - Limb(b, 1) - c
         IN  IF t < 0 THEN <<t + Base>> \o BigSubB(Tail(a), SubSeq(b, 2, Len(b)), 1)
             ELSE <<t>> \o BigSubB(Tail(a), SubSeq(b, 2, Len(b)), 0)

\* a - b, for a >= b
BigSub(a, b) == Trim(BigSubB(a, b, 0))

\* -1, 0 or 1 as a is less than, equal to or greater than b
BigCmp(a, b) ==
    LET differ == {i \in 1..Len(a) : a[i] # Limb(b, i)}
        top == CHOOSE i \in differ : \A j \in differ : j <= i
    IN  IF Len(a) # Len(b) THEN IF Len(a) < Len(b) THEN -1 ELSE 1
        ELSE IF differ = {} THEN 0
        ELSE IF a[top] < b[top] THEN -1 ELSE 1

\* a * f + c, for a factor and a carry below Base
RECURSIVE BigMulSmall(_, _, _)
BigMulSmall(a, f, c) ==
    IF a = <<>> THEN BigOf(c)
    ELSE LET t == a[1] * f + c
         IN  <<t % Base>> \o BigMulSmall(Tail(a), f, t \div Base)

\* n times the item x
Repeat(x, n) == IF n <= 0 THEN <<>> ELSE [i \in 1..n |-> x]

\* a * 2^n
BigShl(a, n) ==
    IF a = <<>> THEN <<>>
    ELSE Repeat(0, n \div LimbBits) \o BigMulSmall(a, 2 ^ (n % LimbBits), 0)

\* a \div 2^n
BigShr(a, n) ==
    LET r == n % LimbBits
        b == SubSeq(a, n \div LimbBits + 1, Len(a))
    IN  Trim([i \in 1..Len(b) |->
                 (b[i] \div 2 ^ r) + (Limb(b, i + 1) % 2 ^ r) * 2 ^ (LimbBits - r)])

\* bit i of a, bit 0 the least significant
BigBit(a, i) == (Limb(a, i \div LimbBits + 1) \div 2 ^ (i % LimbBits)) % 2

\* the n least significant bits of a are 0
LowZero(a, n) == \A i \in 0..(n - 1) : BigBit(a, i) = 0

\* the number of bits of a
BigBitLen(a) ==
    IF a = <<>> THEN 0
    ELSE (Len(a) - 1) * LimbBits
             + CHOOSE n \in 1..LimbBits :
                   a[Len(a)] < 2 ^ n /\ a[Len(a)] >= 2 ^ (n - 1)

\* quotient and remainder of a by a divisor d below Base, from limb i down,
\* r the remainder of the limbs above
RECURSIVE BigDivSmallAt(_, _, _, _)
BigDivSmallAt(a, d, i, r) ==
    IF i = 0 THEN [q |-> <<>>, r |-> r]
    ELSE LET t == r * Base + a[i]
             low == BigDivSmallAt(a, d, i - 1, t % d)
         IN  [q |-> Append(low.q, t \div d), r |-> low.r]

\* the greatest limb q with q * d <= r, from an estimate that is not less
RECURSIVE QuotientLimb(_, _, _)
QuotientLimb(r, d, q) ==
    IF BigCmp(Trim(BigMulSmall(d, q, 0)), r) > 0
    THEN QuotientLimb(r, d, q - 1) ELSE q

\* long division by a divisor whose top limb has all its bits: the quotient
\* limb is estimated from the top limbs of remainder and divisor; done the
\* limbs of the quotient found so far, the least first
RECURSIVE BigDivModAt(_, _, _, _, _)
BigDivModAt(a, d, i, r, done) ==
    LET step(r1, q) ==
            BigDivModAt(a, d, i - 1, BigSub(r1, Trim(BigMulSmall(d, q, 0))),
                        <<q>> \o done)
        limb(r1, est) ==
            IF est < Base THEN step(r1, QuotientLimb(r1, d, est))
            ELSE step(r1, QuotientLimb(r1, d, Base - 1))
        estimate(r1) ==
            limb(r1, (Limb(r1, Len(d) + 1) * Base + Limb(r1, Len(d)))
                         \div d[Len(d)])
    IN  IF i = 0 THEN [q |-> done, r |-> r]
        ELSE estimate(Trim(<<a[i]>> \o r))

\* quotient and remainder of a by d, d # 0
BigDivMod(a, d) ==
    LET result(res, sh) == [q |-> Trim(res.q), r |-> BigShr(res.r, sh)]
        shifted(A, D, sh) == result(BigDivModAt(A, D, Len(A), <<>>, <<>>), sh)
        normal(sh) == shifted(BigShl(a, sh), BigShl(d, sh), sh)
    IN  normal(Len(d) * LimbBits - BigBitLen(d))

Zero(s) == [k |-> "num", s |-> s, m |-> <<>>, e |-> 0]

NaN == [k |-> "nan", s |-> 1, m |-> <<>>, e |-> 0]

Inf(s) == [k |-> "inf", s |-> s, m |-> <<>>, e |-> 0]

\* the float64 nearest to s * (M + f) * 2^e, for a natural number M # 0 and
\* a fraction f, 0 < f < 1 when sticky and 0 otherwise; a sticky M has more
\* than MantissaBits bits
Float64(s, M, e, sticky) ==
    LET finite(m, ex) ==
            IF ex + MantissaBits - 1 > 1023 THEN Inf(s)
            ELSE [k |-> "num", s |-> s, m |-> m, e |-> ex]
        carried(r, ex) ==
            IF BigBitLen(r) > MantissaBits THEN finite(BigShr(r, 1), ex + 1)
            ELSE finite(r, ex)
        rounded(q, sh) ==
            carried(IF /\ BigBit(M, sh - 1) = 1
                       /\ (sticky \/ ~LowZero(M, sh - 1) \/ BigBit(q, 0) = 1)
                    THEN BigAddC(q, <<1>>, 0) ELSE q,
                    e + sh)
        shifted(sh) ==
            IF sh <= 0 THEN finite(BigShl(M, -sh), e + sh)
            ELSE rounded(BigShr(M, sh), sh)
    IN  shifted(BigBitLen(M) - MantissaBits)

\* float(n)
FromInt(n) ==
    IF n = 0 THEN Zero(1)
    ELSE Float64(IF n < 0 THEN -1 ELSE 1, BigOf(Abs(n)), 0, FALSE)

IsZero(v) == v.k = "num" /\ v.m = <<>>

Neg(v) == IF v.k = "nan" THEN v ELSE [v EXCEPT !.s = -v.s]

\* a / b of two float64 columns: x / 0 is an infinity, 0 / 0 is NaN
truediv(a, b) ==
    IF a.k = "nan" \/ b.k = "nan" THEN NaN
    ELSE IF b.k = "inf" THEN IF a.k = "inf" THEN NaN ELSE Zero(a.s * b.s)
    ELSE IF a.k = "inf" THEN Inf(a.s * b.s)
    ELSE IF IsZero(b) THEN IF IsZero(a) THEN NaN ELSE Inf(a.s * b.s)
    ELSE IF IsZero(a) THEN Zero(a.s * b.s)
    ELSE LET quotient(res) ==
                 Float64(a.s * b.s, res.q, a.e - b.e - MantissaBits - 2,
                         res.r # <<>>)
         IN  quotient(BigDivMod(BigShl(a.m, MantissaBits + 2), b.m))

\* a * 100
mul100(a) ==
    IF a.k # "num" \/ IsZero(a) THEN a
    ELSE Float64(a.s, BigMulSmall(a.m, 100, 0), a.e, FALSE)

\* a + b of two finite numbers that are not 0, a.e >= b.e
AddAligned(a, b) ==
    LET far == a.e - b.e > MantissaBits + 2
        aligned(A, e, cmp) ==
            IF a.s # b.s /\ ~far /\ cmp = 0 THEN Zero(1)
            ELSE Float64(IF a.s = b.s \/ far \/ cmp > 0 THEN a.s ELSE b.s,
                         IF a.s = b.s
                         THEN IF far THEN A ELSE BigAddC(A, b.m, 0)
                         ELSE IF far THEN BigSub(A, <<1>>)
                         ELSE IF cmp > 0 THEN BigSub(A, b.m)
                         ELSE BigSub(b.m, A),
                         e, far)
        compared(A, e) == aligned(A, e, BigCmp(A, b.m))
    IN  compared(BigShl(a.m, IF far THEN 2 ELSE a.e - b.e),
                 IF far THEN a.e - 2 ELSE b.e)

\* a + b
add(a, b) ==
    IF a.k = "nan" \/ b.k = "nan" THEN NaN
    ELSE IF a.k = "inf" THEN IF b.k = "inf" /\ b.s # a.s THEN NaN ELSE a
    ELSE IF b.k = "inf" THEN b
    ELSE IF IsZero(a) /\ IsZero(b) THEN IF a.s = b.s THEN a ELSE Zero(1)
    ELSE IF IsZero(b) THEN a
    ELSE IF IsZero(a) THEN b
    ELSE AddAligned(IF a.e >= b.e THEN a ELSE b, IF a.e >= b.e THEN b ELSE a)

\* a - b
sub(a, b) == add(a, Neg(b))

RECURSIVE Sum(_)
Sum(values) == IF values = <<>> THEN 0 ELSE Head(values) + Sum(Tail(values))

\* the mean of the integers of a group, NaN for an empty group
mean(values) ==
    IF values = <<>> THEN NaN
    ELSE truediv(FromInt(Sum(values)), FromInt(Len(values)))

\* the decimal digits of a natural number, the most significant first
RECURSIVE BigDecimal(_)
BigDecimal(a) ==
    LET digits(res) ==
            Append(BigDecimal(Trim(res.q)), DecimalDigits[1][res.r + 1])
    IN  IF a = <<>> THEN <<>>
        ELSE digits(BigDivSmallAt(a, 10, Len(a), 0))

\* f"{value:.2f}", a str as its characters: the integer nearest to
\* |value| * 100, the even one of two nearest, with a point before its last
\* two digits
Format2f(v) ==
    LET sign == IF v.s < 0 THEN <<"-">> ELSE <<>>
        text(digits) ==
            sign \o SubSeq(digits, 1, Len(digits) - 2) \o <<".">>
                 \o SubSeq(digits, Len(digits) - 1, Len(digits))
        padded(d) == text(Repeat("0", 3 - Len(d)) \o d)
        hundredths(T, q) ==
            padded(BigDecimal(
                IF v.e >= 0 THEN BigShl(T, v.e)
                ELSE IF /\ BigBit(T, -v.e - 1) = 1
                        /\ (~LowZero(T, -v.e - 1) \/ BigBit(q, 0) = 1)
                THEN BigAddC(q, <<1>>, 0) ELSE q))
        scaled(T) == hundredths(T, BigShr(T, -v.e))
    IN  IF v.k = "nan" THEN <<"n", "a", "n">>
        ELSE IF v.k = "inf" THEN sign \o <<"i", "n", "f">>
        ELSE scaled(BigMulSmall(v.m, 100, 0))

(***************************************************************************)
(* The dashboards: frames                                                  *)
(*                                                                         *)
(* A frame is the sequence of its rows, a row a function from column names *)
(* to values.  dashboard.py reads the file export_data.py wrote and pivots *)
(* it with pandas; dashboard_initial.py pivots in SQL.  The metric names   *)
(* of the sample data hold no space and no hyphen, so the renaming of      *)
(* dashboard.py line 23 leaves them as they are.                           *)
(***************************************************************************)
Range(s) == {s[i] : i \in DOMAIN s}

IndexCols == <<"ticker", "company_name", "fiscal_date_ending">>

RequiredMetrics ==
    <<"totalRevenue", "grossProfit", "operatingIncome", "netIncome",
      "totalCurrentAssets", "totalCurrentLiabilities">>

required_cols == IndexCols \o RequiredMetrics

\* the column aliases of the query of dashboard_initial.py
Alias(metric) ==
    CASE metric = "totalRevenue" -> "total_revenue"
      [] metric = "grossProfit" -> "gross_profit"
      [] metric = "operatingIncome" -> "operating_income"
      [] metric = "netIncome" -> "net_income"
      [] metric = "totalCurrentAssets" -> "total_current_assets"
      [] metric = "totalCurrentLiabilities" -> "total_current_liabilities"

display_cols ==
    <<"gross_margin_pct", "operating_margin_pct", "net_margin_pct",
      "current_ratio", "revenue_yoy_growth_pct">>

\* the order of str on tickers: by character, a proper prefix first
Alphabet ==
    <<"A", "B", "C", "D", "E", "F", "G", "H", "I", "J", "K", "L", "M",
      "N", "O", "P", "Q", "R", "S", "T", "U", "V", "W", "X", "Y", "Z">>

Ord(c) == CHOOSE i \in 1..Len(Alphabet) : Alphabet[i] = c

Letters(tk) ==
    CASE tk = "TEL" -> <<"T", "E", "L">>
      [] tk = "ST" -> <<"S", "T">>
      [] tk = "DD" -> <<"D", "D">>

RECURSIVE SeqLess(_, _)
SeqLess(a, b) ==
    IF b = <<>> THEN FALSE
    ELSE IF a = <<>> THEN TRUE
    ELSE IF Ord(Head(a)) # Ord(Head(b)) THEN Ord(Head(a)) < Ord(Head(b))
    ELSE SeqLess(Tail(a), Tail(b))

StrLess(a, b) == SeqLess(Letters(a), Letters(b))

\* the order of by=['ticker', 'fiscal_date_ending']
RowLess(a, b) ==
    \/ StrLess(a.ticker, b.ticker)
    \/ /\ a.ticker = b.ticker
       /\ a.fiscal_date_ending < b.fiscal_date_ending

RECURSIVE InsertRow(_, _)
InsertRow(sorted, x) ==
    IF sorted = <<>> THEN <<x>>
    ELSE IF RowLess(x, Head(sorted)) THEN <<x>> \o sorted
    ELSE <<Head(sorted)>> \o InsertRow(Tail(sorted), x)

\* variant: the rows stay in the order they came in
SortRows_Unsorted(frame) == frame

\* the rows in ascending order of ticker and date, equal keys in the order
\* they came in
RECURSIVE SortRows(_)
SortRows(frame) ==
    IF frame = <<>> THEN <<>>
    ELSE InsertRow(SortRows(SubSeq(frame, 1, Len(frame) - 1)),
                   frame[Len(frame)])

\* export_data.py: the join of the two tables, written to the file and
\* read back by pd.read_csv
export_data_query(cs, fs) ==
    LET joined == SelectSeq(fs, LAMBDA r :
                      \E j \in 1..Len(cs) : cs[j].id = r.company_id)
        c(r) == cs[CHOOSE j \in 1..Len(cs) : cs[j].id = r.company_id]
    IN  [i \in 1..Len(joined) |->
            [ticker |-> c(joined[i]).ticker,
             company_name |-> c(joined[i]).name,
             fiscal_date_ending |-> joined[i].fiscal_date_ending,
             metric_name |-> joined[i].metric_name,
             metric_value |-> joined[i].metric_value]]

GroupKey(r) ==
    [ticker |-> r.ticker, company_name |-> r.company_name,
     fiscal_date_ending |-> r.fiscal_date_ending]

\* the distinct group keys of a long frame, in the order of first appearance
GroupKeys(long) ==
    LET first == {i \in 1..Len(long) :
                     \A j \in 1..(i - 1) : GroupKey(long[j]) # GroupKey(long[i])}
        nth(n) ==
            CHOOSE i \in first : Cardinality({j \in first : j < i}) = n - 1
    IN  [n \in 1..Cardinality(first) |-> GroupKey(long[nth(n)])]

\* the values of one metric in one group, in the order of the rows
GroupValues(long, key, metric) ==
    LET hits == SelectSeq(long, LAMBDA r :
                    GroupKey(r) = key /\ r.metric_name = metric)
    IN  [i \in 1..Len(hits) |-> hits[i].metric_value]

\* df_long.pivot_table(index=..., columns='metric_name',
\* values='metric_value').reset_index(): one row per group, in the order of
\* the keys, one column per metric name of the file, the mean of the
\* group's values of the metric or NaN
pivot_table(long) ==
    LET keys == SortRows(GroupKeys(long))
        metrics == {long[i].metric_name : i \in 1..Len(long)}
    IN  [i \in 1..Len(keys) |->
            [c \in Range(IndexCols) \cup metrics |->
                IF c \in Range(IndexCols) THEN keys[i][c]
                ELSE mean(GroupValues(long, keys[i], c))]]

\* df.sort_values(by=['ticker', 'fiscal_date_ending'])
sort_values(frame) == SortRows(frame)

\* pd.to_numeric(column, errors='coerce').fillna(0)
fillna(v) == IF v.k = "nan" THEN FromInt(0) ELSE v

\* load_data() of dashboard.py, lines 7-45: it returns an empty frame when
\* the file does not exist, and pd.read_csv raises EmptyDataError, which
\* line 11 does not catch, when the file holds no header line
load_data(file) ==
    LET selected(pivoted) ==
            [i \in 1..Len(pivoted) |->
                [c \in Range(required_cols) |->
                    IF c \in DOMAIN pivoted[i] THEN pivoted[i][c]
                    ELSE FromInt(0)]]
        numeric(sorted) ==
            [i \in 1..Len(sorted) |->
                [c \in Range(required_cols) |->
                    IF c \in Range(IndexCols) THEN sorted[i][c]
                    ELSE fillna(sorted[i][c])]]
    IN  IF ~file.exists THEN [raised |-> "none", value |-> <<>>]
        ELSE IF file.header = <<>>
        THEN [raised |-> "EmptyDataError", value |-> <<>>]
        ELSE [raised |-> "none",
              value |-> numeric(sort_values(selected(pivot_table(file.rows))))]

RECURSIVE MaxOfSeq(_)
MaxOfSeq(values) ==
    IF Len(values) = 1 THEN values[1]
    ELSE LET m == MaxOfSeq(Tail(values))
         IN  IF Head(values) >= m THEN Head(values) ELSE m

\* MAX(CASE WHEN fs.metric_name = metric THEN fs.metric_value ELSE 0 END)
\* over the rows of one group
MaxCase(group, metric) ==
    MaxOfSeq([i \in 1..Len(group) |->
                 IF group[i].metric_name = metric
                 THEN group[i].metric_value ELSE 0])

\* load_data() of dashboard_initial.py, lines 19-47
load_data_initial(cs, fs) ==
    LET joined == export_data_query(cs, fs)
        wanted == SelectSeq(joined, LAMBDA r :
                      r.metric_name \in Range(RequiredMetrics))
        keys == GroupKeys(wanted)
        group(key) == SelectSeq(wanted, LAMBDA r : GroupKey(r) = key)
        pivoted_data ==
            [i \in 1..Len(keys) |->
                [c \in Range(IndexCols) \cup {Alias(m) : m \in Range(RequiredMetrics)} |->
                    IF c \in Range(IndexCols) THEN keys[i][c]
                    ELSE LET m == CHOOSE m \in Range(RequiredMetrics) : Alias(m) = c
                         IN  MaxCase(group(keys[i]), m)]]
        with_revenue == SelectSeq(pivoted_data, LAMBDA r : r.total_revenue > 0)
        sorted == sort_values(with_revenue)
    IN  [i \in 1..Len(sorted) |->
            [c \in DOMAIN sorted[i] |->
                IF c \in Range(IndexCols) THEN sorted[i][c]
                ELSE FromInt(sorted[i][c])]]

(***************************************************************************)
(* The dashboards: calculate_metrics() and the formatted table             *)
(***************************************************************************)
\* the float 1e-9: the float64 nearest to 1 / 10^9
Epsilon == truediv(FromInt(1), FromInt(1000000000))

\* variant: the value stays as it is
replace_Kept(v, old, new) == v

\* Series.replace(old, new), for one value: v == old, the zeros being equal
replace(v, old, new) ==
    IF v.k = old.k /\ v.m = old.m /\ v.e = old.e /\ (v.s = old.s \/ IsZero(v))
    THEN new ELSE v

\* frame[col] = values
assign(frame, col, values) ==
    [i \in 1..Len(frame) |->
        [c \in DOMAIN frame[i] \cup {col} |->
            IF c = col THEN values[i] ELSE frame[i][c]]]

\* variant: the ratio is not scaled to a percentage
margin_pct_Unscaled(part, revenue) == truediv(part, revenue)

\* (part / revenue) * 100
margin_pct(part, revenue) == mul100(truediv(part, revenue))

\* frame.groupby('ticker')[col].pct_change(), at row i: the value over the
\* value of the nearest earlier row of the same ticker, minus 1; NaN for the
\* first row of a ticker
pct_change(frame, col, i) ==
    LET earlier == {j \in 1..(i - 1) : frame[j].ticker = frame[i].ticker}
    IN  IF earlier = {} THEN NaN
        ELSE LET j == CHOOSE j \in earlier : \A x \in earlier : x <= j
             IN  sub(truediv(frame[i][col], frame[j][col]), FromInt(1))

\* calculate_metrics() of dashboard.py, lines 47-68: each statement takes
\* df_metrics to df_metrics with one column assigned
calculate_metrics(frame) ==
    LET totalRevenue(df_metrics) ==
            assign(df_metrics, "totalRevenue",
                [i \in 1..Len(df_metrics) |->
                    replace(df_metrics[i].totalRevenue, FromInt(0), Epsilon)])
        totalCurrentLiabilities(df_metrics) ==
            assign(df_metrics, "totalCurrentLiabilities",
                [i \in 1..Len(df_metrics) |->
                    replace(df_metrics[i].totalCurrentLiabilities, FromInt(0),
                            Epsilon)])
        gross_margin_pct(df_metrics) ==
            assign(df_metrics, "gross_margin_pct",
                [i \in 1..Len(df_metrics) |->
                    margin_pct(df_metrics[i].grossProfit,
                               df_metrics[i].totalRevenue)])
        operating_margin_pct(df_metrics) ==
            assign(df_metrics, "operating_margin_pct",
                [i \in 1..Len(df_metrics) |->
                    margin_pct(df_metrics[i].operatingIncome,
                               df_metrics[i].totalRevenue)])
        net_margin_pct(df_metrics) ==
            assign(df_metrics, "net_margin_pct",
                [i \in 1..Len(df_metrics) |->
                    margin_pct(df_metrics[i].netIncome,
                               df_metrics[i].totalRevenue)])
        current_ratio(df_metrics) ==
            assign(df_metrics, "current_ratio",
                [i \in 1..Len(df_metrics) |->
                    truediv(df_metrics[i].totalCurrentAssets,
                            df_metrics[i].totalCurrentLiabilities)])
        revenue_yoy_growth_pct(df_metrics) ==
            assign(df_metrics, "revenue_yoy_growth_pct",
                [i \in 1..Len(df_metrics) |->
                    mul100(pct_change(df_metrics, "totalRevenue", i))])
    IN  revenue_yoy_growth_pct(current_ratio(net_margin_pct(
            operating_margin_pct(gross_margin_pct(
                totalCurrentLiabilities(totalRevenue(frame)))))))

\* calculate_metrics() of dashboard_initial.py, lines 51-72
calculate_metrics_initial(frame) ==
    LET total_revenue(df_metrics) ==
            assign(df_metrics, "total_revenue",
                [i \in 1..Len(df_metrics) |->
                    replace(df_metrics[i].total_revenue, FromInt(0), Epsilon)])
        gross_margin_pct(df_metrics) ==
            assign(df_metrics, "gross_margin_pct",
                [i \in 1..Len(df_metrics) |->
                    margin_pct(df_metrics[i].gross_profit,
                               df_metrics[i].total_revenue)])
        operating_margin_pct(df_metrics) ==
            assign(df_metrics, "operating_margin_pct",
                [i \in 1..Len(df_metrics) |->
                    margin_pct(df_metrics[i].operating_income,
                               df_metrics[i].total_revenue)])
        net_margin_pct(df_metrics) ==
            assign(df_metrics, "net_margin_pct",
                [i \in 1..Len(df_metrics) |->
                    margin_pct(df_metrics[i].net_income,
                               df_metrics[i].total_revenue)])
        current_ratio(df_metrics) ==
            assign(df_metrics, "current_ratio",
                [i \in 1..Len(df_metrics) |->
                    truediv(df_metrics[i].total_current_assets,
                            replace(df_metrics[i].total_current_liabilities,
                                    FromInt(0), Epsilon))])
        revenue_yoy_growth_pct(df_metrics) ==
            assign(df_metrics, "revenue_yoy_growth_pct",
                [i \in 1..Len(df_metrics) |->
                    mul100(pct_change(df_metrics, "total_revenue", i))])
    IN  revenue_yoy_growth_pct(current_ratio(net_margin_pct(
            operating_margin_pct(gross_margin_pct(total_revenue(frame))))))

\* "N/A", a str as its characters
NotAvailable == <<"N", "/", "A">>

\* 'pct' in metric_name
HasPct(metric_name) ==
    metric_name \in {"gross_margin_pct", "operating_margin_pct",
                     "net_margin_pct", "revenue_yoy_growth_pct"}

\* the loop over the cells of formatted_df
format_value(metric_name, value) ==
    IF value.k = "nan" THEN NotAvailable
    ELSE IF HasPct(metric_name) THEN Format2f(value) \o <<"%">>
    ELSE Format2f(value)

\* metrics_df[display_cols], formatted; one row per date
format_metrics(frame) ==
    [i \in 1..Len(frame) |->
        [c \in {"fiscal_date_ending"} \cup Range(display_cols) |->
            IF c = "fiscal_date_ending" THEN frame[i][c]
            ELSE format_value(c, frame[i][c])]]

(***************************************************************************)
(* The dashboards over sample tables                                       *)
(*                                                                         *)
(* The tables hold what runs of the pipeline can store: two companies, the *)
(* second stored with its ticker as name and with the id of a second       *)
(* INSERT, the first having been rolled back; for each of the fiscal years *)
(* a run keeps of the first company, and for one year of the second,       *)
(* either nothing or the facts of one of the profiles below, the years     *)
(* after the second being absent or grown.  The rows of a company are      *)
(* stored newest year first.                                               *)
(***************************************************************************)
MaxPeriods == 3

Fact(stype, metric, value) ==
    [statement_type |-> stype, metric_name |-> metric, metric_value |-> value]

Absent == <<>>

Full ==
    << Fact("INCOME_STATEMENT", "totalRevenue", 1000),
       Fact("INCOME_STATEMENT", "grossProfit", 400),
       Fact("INCOME_STATEMENT", "operatingIncome", 200),
       Fact("INCOME_STATEMENT", "netIncome", 100),
       Fact("BALANCE_SHEET", "totalAssets", 9000),
       Fact("BALANCE_SHEET", "totalCurrentAssets", 500),
       Fact("BALANCE_SHEET", "totalCurrentLiabilities", 250),
       Fact("CASH_FLOW", "netIncome", 100) >>

Grown ==
    << Fact("INCOME_STATEMENT", "totalRevenue", 1100),
       Fact("INCOME_STATEMENT", "grossProfit", 330),
       Fact("INCOME_STATEMENT", "netIncome", -55),
       Fact("BALANCE_SHEET", "totalCurrentAssets", 500),
       Fact("BALANCE_SHEET", "totalCurrentLiabilities", 0) >>

ZeroRevenue ==
    << Fact("INCOME_STATEMENT", "totalRevenue", 0),
       Fact("INCOME_STATEMENT", "grossProfit", 0),
       Fact("INCOME_STATEMENT", "netIncome", -30),
       Fact("BALANCE_SHEET", "totalCurrentAssets", 300),
       Fact("BALANCE_SHEET", "totalCurrentLiabilities", 150) >>

NegativeRevenue ==
    << Fact("INCOME_STATEMENT", "totalRevenue", -200),
       Fact("INCOME_STATEMENT", "netIncome", -7) >>

NoRevenue ==
    << Fact("BALANCE_SHEET", "totalCurrentAssets", 500),
       Fact("BALANCE_SHEET", "totalCurrentLiabilities", 400) >>

OtherOnly == << Fact("BALANCE_SHEET", "totalAssets", 9000) >>

\* netIncome is a field of the income statement and of the cash flow
Restated ==
    << Fact("INCOME_STATEMENT", "totalRevenue", 1000),
       Fact("INCOME_STATEMENT", "netIncome", 100),
       Fact("CASH_FLOW", "netIncome", 120) >>

Profiles ==
    {Absent, Full, Grown, ZeroRevenue, NegativeRevenue, NoRevenue, OtherOnly,
     Restated}

SampleCompanies ==
    << [id |-> 1, ticker |-> "TEL", name |-> "TE Connectivity"],
       [id |-> 3, ticker |-> "ST", name |-> "ST"] >>

FactRows(cid, facts, date) ==
    [i \in 1..Len(facts) |->
        Row(cid, facts[i].statement_type, date, facts[i].metric_name,
            facts[i].metric_value)]

RECURSIVE CompanyRows(_, _, _)
CompanyRows(cid, profile, p) ==
    IF p = 0 THEN <<>>
    ELSE FactRows(cid, profile[p], 2020 + p) \o CompanyRows(cid, profile, p - 1)

SampleStores ==
    { CompanyRows(SampleCompanies[1].id, f, MaxPeriods)
          \o CompanyRows(SampleCompanies[2].id, g, 1) :
        f \in {h \in [1..MaxPeriods -> Profiles] :
                     \A p \in 3..MaxPeriods : h[p] \in {Absent, Grown}},
        g \in [1..1 -> {Absent, Full, Grown}] }

InitDashboard ==
    /\ companies = SampleCompanies
    /\ companies_id_seq = SampleCompanies[Len(SampleCompanies)].id
    /\ financial_statements \in SampleStores
    /\ txn = <<>>
    /\ app \in {"dashboard", "dashboard_initial"}
    /\ pc = "load_data"
    /\ run = 1
    /\ ti = 1
    /\ k = 1
    /\ company_id = 0
    /\ company_info = NoInfo
    /\ statements = [j \in 1..3 |-> NoData]
    /\ data = NoData
    /\ records = <<>>
    /\ rows = 0
    /\ total_rows_loaded = 0
    /\ error = "none"
    /\ log = <<>>
    /\ faults = 0
    /\ export_pc = "idle"
    /\ export_df = <<>>
    /\ financial_data_csv = NoFile
    /\ cache = NotCached
    /\ df = <<>>
    /\ selected_ticker = ""
    /\ metrics_df = <<>>
    /\ formatted_df = <<>>

pipeline ==
    <<companies, financial_statements, companies_id_seq, txn, run, ti, k,
      company_id, company_info, statements, data, records, rows,
      total_rows_loaded, error, log, faults>>

\* export_data.py, run at any time and whichever dashboard is served, up
\* to the point where df.to_csv of line 35 has opened the file with mode
\* "w": the file exists and holds nothing
export_data_open ==
    /\ export_pc = "idle"
    /\ export_df' = export_data_query(companies, financial_statements)
    /\ financial_data_csv' = [exists |-> TRUE, header |-> <<>>, rows |-> <<>>]
    /\ export_pc' = "to_csv"
    /\ UNCHANGED <<pipeline, app, pc, cache, df, selected_ticker, metrics_df,
                   formatted_df>>

\* df.to_csv of line 35 returns: the header line and the rows, which fit
\* the buffer of the writer, reach the file when it is closed
export_data_close ==
    /\ export_pc = "to_csv"
    /\ financial_data_csv' =
          [exists |-> TRUE,
           header |-> <<"ticker", "company_name", "fiscal_date_ending",
                        "metric_name", "metric_value">>,
           rows |-> export_df]
    /\ export_pc' = "idle"
    /\ UNCHANGED <<pipeline, app, pc, export_df, cache, df, selected_ticker,
                   metrics_df, formatted_df>>

\* all_data = load_data(), dashboard.py line 76, and the test of line 78;
\* @st.cache_data, line 6: the body of load_data() runs until a call has
\* returned, and every later call returns what that call returned; an
\* exception of load_data() ends the run of the script
dashboard_load_data ==
    /\ pc = "load_data"
    /\ app = "dashboard"
    /\ LET returned(all_data) ==
               /\ df' = all_data
               /\ cache' = [hit |-> TRUE, value |-> all_data]
               /\ pc' = IF all_data = <<>> THEN "no_data" ELSE "select"
           called(result) ==
               IF result.raised = "none" THEN returned(result.value)
               ELSE /\ pc' = "exception"
                    /\ UNCHANGED <<df, cache>>
       IN  called(IF cache.hit THEN [raised |-> "none", value |-> cache.value]
                  ELSE load_data(financial_data_csv))
    /\ UNCHANGED <<pipeline, app, export_pc, export_df, financial_data_csv,
                   selected_ticker, metrics_df, formatted_df>>

\* all_data = load_data(), dashboard_initial.py line 83, and the test of
\* line 85; @st.cache_data(ttl=600), line 16: a later call returns what
\* the last run of the body returned, unless that was 600 s ago or more
dashboard_initial_load_data ==
    /\ pc = "load_data"
    /\ app = "dashboard_initial"
    /\ \E expired \in BOOLEAN :
         LET returned(all_data) ==
                 /\ df' = all_data
                 /\ cache' = [hit |-> TRUE, value |-> all_data]
                 /\ pc' = IF all_data = <<>> THEN "no_data" ELSE "select"
         IN  returned(IF cache.hit /\ ~expired THEN cache.value
                      ELSE load_data_initial(companies, financial_statements))
    /\ UNCHANGED <<pipeline, app, export_pc, export_df, financial_data_csv,
                   selected_ticker, metrics_df, formatted_df>>

\* the select box over all_data['ticker'].unique()
dashboard_select ==
    /\ pc = "select"
    /\ \E i \in 1..Len(df) : selected_ticker' = df[i].ticker
    /\ pc' = "calculate_metrics"
    /\ UNCHANGED <<pipeline, app, export_pc, export_df, financial_data_csv,
                   cache, df, metrics_df, formatted_df>>

\* all_data[all_data['ticker'] == selected_ticker]
company_data == SelectSeq(df, LAMBDA r : r.ticker = selected_ticker)

\* metrics_df = calculate_metrics(company_data), dashboard.py line 89
dashboard_calculate_metrics ==
    /\ pc = "calculate_metrics"
    /\ app = "dashboard"
    /\ metrics_df' = calculate_metrics(company_data)
    /\ pc' = "format"
    /\ UNCHANGED <<pipeline, app, export_pc, export_df, financial_data_csv,
                   cache, df, selected_ticker, formatted_df>>

\* metrics_df = calculate_metrics(company_data), dashboard_initial.py line 99
dashboard_initial_calculate_metrics ==
    /\ pc = "calculate_metrics"
    /\ app = "dashboard_initial"
    /\ metrics_df' = calculate_metrics_initial(company_data)
    /\ pc' = "format"
    /\ UNCHANGED <<pipeline, app, export_pc, export_df, financial_data_csv,
                   cache, df, selected_ticker, formatted_df>>

\* the formatted table handed to st.table
dashboard_format ==
    /\ pc = "format"
    /\ formatted_df' = format_metrics(metrics_df)
    /\ pc' = "shown"
    /\ UNCHANGED <<pipeline, app, export_pc, export_df, financial_data_csv,
                   cache, df, selected_ticker, metrics_df>>

\* Streamlit runs the script again from its first line, on a reload of the
\* page or a change of the select box
dashboard_rerun ==
    /\ pc \in {"no_data", "shown", "exception"}
    /\ pc' = "load_data"
    /\ df' = <<>>
    /\ selected_ticker' = ""
    /\ metrics_df' = <<>>
    /\ formatted_df' = <<>>
    /\ UNCHANGED <<pipeline, app, export_pc, export_df, financial_data_csv,
                   cache>>

NextDashboard ==
    \/ export_data_open
    \/ export_data_close
    \/ dashboard_load_data
    \/ dashboard_initial_load_data
    \/ dashboard_select
    \/ dashboard_calculate_metrics
    \/ dashboard_initial_calculate_metrics
    \/ dashboard_format
    \/ dashboard_rerun

SpecDashboard == InitDashboard /\ [][NextDashboard]_vars

(***************************************************************************)
(* Properties                                                              *)
(***************************************************************************)
\* the uniqueness key of a stored record
KeyOf(r) ==
    <<r.company_id, r.statement_type, r.fiscal_date_ending, r.metric_name>>

\* the table as the connection of the run sees it
Visible == financial_statements \o txn

LastOp == IF log = <<>> THEN "none" ELSE log[Len(log)].op

\* positions of the requests of one call in the log of the run
ReqIdx(tk, fn) ==
    { j \in 1..Len(log) :
        log[j].op = "request" /\ log[j].ticker = tk /\ log[j].fn = fn }

MinOf(S) == CHOOSE x \in S : \A y \in S : x <= y

MaxOf(S) == CHOOSE x \in S : \A y \in S : x >= y

\* the step of one statement kind of one entity is over
StepOver(tk, fn) ==
    \E j \in 1..Len(log) :
        log[j].op \in {"skip", "commit"} /\ log[j].ticker = tk /\ log[j].fn = fn

\* the Information field carries the frequency-limit phrase
ThrottleSignal(text) ==
    \E j \in 0..(Len(text) - Len(LimitPhrase)) :
        \A i \in 1..Len(LimitPhrase) : text[j + i] = LimitPhrase[i]

Tickers == { COMPANIES[j] : j \in 1..Len(COMPANIES) }

Kinds == { STATEMENT_TYPES[j] : j \in 1..Len(STATEMENT_TYPES) }

\* C1: upsert is idempotent: loading the batch that was just loaded once more
\* leaves the table as it is and inserts 0 rows, in the same run and in a
\* later run.
C1_UpsertIdempotent ==
    pc # "aborted" =>
        /\ Upsert(Visible, records) = Visible
        /\ Rowcount(Visible, records) = 0

\* a second run loaded a non-empty batch that the first run had stored
C1_Witness ==
    /\ run = 2
    /\ pc = "commit"
    /\ records # <<>>
    /\ rows = 0
    /\ \A j \in 1..Len(records) : \E i \in 1..Len(financial_statements) :
          financial_statements[i] = records[j]

\* C2: first-write-wins: no step changes the value stored for a key; a key
\* that is stored keeps exactly the value it was first stored with.
C2_FirstWriteWins ==
    [][financial_statements' # financial_statements =>
       \A j \in 1..Len(financial_statements) :
          { financial_statements'[i].metric_value :
              i \in { i \in 1..Len(financial_statements') :
                        KeyOf(financial_statements'[i])
                            = KeyOf(financial_statements[j]) } }
          = { financial_statements[j].metric_value }]_vars

\* a committed load carried a record whose key was stored with another value
C2_Witness ==
    /\ LastOp = "commit"
    /\ \E j \in 1..Len(records) : \E i \in 1..Len(financial_statements) :
          /\ KeyOf(financial_statements[i]) = KeyOf(records[j])
          /\ financial_statements[i].metric_value # records[j].metric_value
          /\ \A m \in 1..Len(records) :
                KeyOf(records[m]) = KeyOf(records[j])
                    => records[m].metric_value # financial_statements[i].metric_value

\* C3: no two stored statement records share (entity, statement kind,
\* period, metric name), in the committed table and in the open transaction.
C3_UniqueKey ==
    Cardinality({ KeyOf(Visible[i]) : i \in 1..Len(Visible) }) = Len(Visible)

\* a batch that holds the same key twice has been loaded and committed
C3_Witness ==
    /\ LastOp = "commit"
    /\ \E i, j \in 1..Len(records) :
          /\ i < j
          /\ KeyOf(records[i]) = KeyOf(records[j])
          /\ records[i].metric_value # records[j].metric_value
          /\ \E m \in 1..Len(financial_statements) :
                financial_statements[m] = records[i]

\* C4 as claimed: every call (overview or statement) whose first response
\* carries the throttle signal is issued exactly twice once its step is over,
\* the second time after the long wait, and a call whose first response does
\* not carry it is issued once.
C4_RetryAnyCall ==
    \A tk \in Tickers : \A fn \in Kinds \cup {"OVERVIEW"} :
        LET R == ReqIdx(tk, fn)
            over == IF fn = "OVERVIEW"
                    THEN ReqIdx(tk, STATEMENT_TYPES[1]) # {}
                    ELSE StepOver(tk, fn)
        IN (R # {} /\ over) =>
              IF ThrottleSignal(log[MinOf(R)].info)
              THEN /\ Cardinality(R) = 2
                   /\ log[MaxOf(R) - 1].op = "sleep"
                   /\ log[MaxOf(R) - 1].secs = 60
              ELSE Cardinality(R) = 1

\* C4 amended: a statement call is issued at most twice; it is issued a second
\* time exactly when its first response carries the throttle signal, after the
\* 60 second wait, and never a third time; an overview call is never repeated,
\* and a company whose overview response carried the throttle signal is stored
\* with its ticker as name.
C4_RetryStatementOnce ==
    /\ \A tk \in Tickers : \A fn \in Kinds :
          LET R == ReqIdx(tk, fn)
          IN /\ Cardinality(R) <= 2
             /\ Cardinality(R) = 2 =>
                   /\ ThrottleSignal(log[MinOf(R)].info)
                   /\ log[MaxOf(R) - 1].op = "sleep"
                   /\ log[MaxOf(R) - 1].secs = 60
                   /\ log[MaxOf(R) - 1].ticker = tk
                   /\ log[MaxOf(R) - 1].fn = fn
             /\ (R # {} /\ StepOver(tk, fn)
                   /\ ThrottleSignal(log[MinOf(R)].info)) => Cardinality(R) = 2
    /\ \A tk \in Tickers :
          LET R == ReqIdx(tk, "OVERVIEW")
          IN /\ Cardinality(R) <= 1
             /\ \A i \in R : \A j \in 1..Len(companies) :
                   (ThrottleSignal(log[i].info) /\ companies[j].ticker = tk) =>
                       companies[j].name = tk

\* a throttled statement call was retried, the retried response was not
\* loadable and the step ended without a load
C4_Witness ==
    \E tk \in Tickers : \E fn \in Kinds :
        /\ Cardinality(ReqIdx(tk, fn)) = 2
        /\ \E j \in 1..Len(log) :
              log[j].op = "skip" /\ log[j].ticker = tk /\ log[j].fn = fn

\* C5 as claimed: a non-2xx response never ends the run.
C5_FetchFailureIsLocal == ~(pc = "aborted" /\ error = "HTTPError")

\* C6 as claimed: a statement kind is requested only after the previous kind
\* of the same entity has been loaded and committed (or skipped).
C6_LoadBeforeNextFetch ==
    \A j \in 1..Len(log) : \A m \in 2..Len(STATEMENT_TYPES) :
        (log[j].op = "request" /\ log[j].fn = STATEMENT_TYPES[m]) =>
            \E i \in 1..(j - 1) :
                /\ log[i].op \in {"commit", "skip"}
                /\ log[i].ticker = log[j].ticker
                /\ log[i].fn = STATEMENT_TYPES[m - 1]

\* C6 amended: the three kinds of an entity are requested in order, all of
\* them before the first load; then each kind is loaded and committed (or
\* skipped) before the next kind is loaded.
C6_FetchAllThenLoadInOrder ==
    /\ \A j \in 1..Len(log) : \A m \in 1..Len(STATEMENT_TYPES) :
          (log[j].op \in {"load", "skip"} /\ log[j].fn = STATEMENT_TYPES[m]) =>
             /\ \A fn \in Kinds :
                   \E i \in 1..(j - 1) :
                      /\ log[i].op = "request"
                      /\ log[i].ticker = log[j].ticker
                      /\ log[i].fn = fn
             /\ m > 1 =>
                   \E i \in 1..(j - 1) :
                      /\ log[i].op \in {"commit", "skip"}
                      /\ log[i].ticker = log[j].ticker
                      /\ log[i].fn = STATEMENT_TYPES[m - 1]
    /\ \A j \in 1..(Len(log) - 1) :
          log[j].op = "load" =>
             /\ log[j + 1].op = "commit"
             /\ log[j + 1].ticker = log[j].ticker
             /\ log[j + 1].fn = log[j].fn
    /\ \A tk \in Tickers : \A m \in 2..Len(STATEMENT_TYPES) :
          ReqIdx(tk, STATEMENT_TYPES[m]) # {} =>
             /\ ReqIdx(tk, STATEMENT_TYPES[m - 1]) # {}
             /\ MinOf(ReqIdx(tk, STATEMENT_TYPES[m - 1]))
                   < MinOf(ReqIdx(tk, STATEMENT_TYPES[m]))

\* the second kind of an entity has been loaded and committed
C6_Witness ==
    \E j \in 1..Len(log) :
        /\ log[j].op = "commit"
        /\ log[j].fn = STATEMENT_TYPES[2]
        /\ \E i \in 1..(j - 1) :
              log[i].op = "commit" /\ log[i].fn = STATEMENT_TYPES[1]
                 /\ log[i].ticker = log[j].ticker

\* C7: batch atomicity: a step leaves the committed table as it was or adds
\* every row the load of the current batch inserts, also when the run fails.
C7_BatchAtomic ==
    [][\/ financial_statements' = financial_statements
       \/ financial_statements' = Upsert(financial_statements, records)]_vars

\* the storage failed after a batch of several new rows was inserted and
\* before it was committed; none of its rows is stored
C7_Witness ==
    /\ pc = "aborted"
    /\ error = "DBAPIError"
    /\ LastOp = "load"
    /\ rows >= 2
    /\ \A j \in 1..Len(records) : \A i \in 1..Len(financial_statements) :
          financial_statements[i] # records[j]

\* the reports of the payload that are strictly more recent than a period
NewerReports(period) ==
    { i \in 1..Len(data.annualReports) :
        data.annualReports[i].fiscalDateEnding > period }

\* C8: normalize retains at most 3 periods, and every record belongs to one
\* of the 3 most recent reports: fewer than 3 reports of the payload are more
\* recent than the period of any record.
C8_ThreeMostRecent ==
    (pc = "normalized" /\ error = "none") =>
        /\ Cardinality({ records[j].fiscal_date_ending : j \in 1..Len(records) })
              <= 3
        /\ \A j \in 1..Len(records) :
              Cardinality(NewerReports(records[j].fiscal_date_ending)) < 3

\* a payload of more than 3 reports, the oldest of them first, was normalised
\* and records of the recent ones were produced
C8_Witness ==
    /\ pc = "normalized"
    /\ error = "none"
    /\ Len(data.annualReports) > 3
    /\ Cardinality(NewerReports(data.annualReports[1].fiscalDateEnding)) >= 3
    /\ records # <<>>

\* the fields of the retained reports
RetainedItems ==
    { <<j, m>> \in (1..Len(data.annualReports)) \X (1..3) :
        /\ j <= Len(annual_reports(data))
        /\ m <= Len(annual_reports(data)[j].items) }

\* C9 as claimed: normalize never raises on a payload with a reports
\* collection and returns at most one record per field of a retained report.
C9_NeverRaises ==
    (pc = "normalized" /\ "annualReports" \in data.keys) =>
        /\ error = "none"
        /\ Len(records) <= Cardinality(RetainedItems)

\* C10: a payload without the reports collection yields zero records, leaves
\* the table, the open transaction and the count as they are, and the run
\* goes on with the next statement kind or entity.
C10_EmptyPayloadSkipped ==
    [][(pc = "load" /\ "annualReports" \notin data.keys) =>
          /\ Normalize(data, company_id, statement_type) = <<>>
          /\ financial_statements' = financial_statements
          /\ txn' = txn
          /\ total_rows_loaded' = total_rows_loaded
          /\ error' = "none"
          /\ pc' \in {"loop", "lookup", "done"}
          /\ IF k < 3 THEN k' = k + 1 /\ ti' = ti
             ELSE k' = 1 /\ (ti < 3 => ti' = ti + 1)]_vars

\* a step was skipped for its payload and a later step of the run loaded
\* and committed new rows
C10_Witness ==
    /\ LastOp = "commit"
    /\ rows > 0
    /\ \E j \in 1..Len(log) : log[j].op = "skip"

\* C11: get-or-create of a company is idempotent on its ticker: the table
\* holds at most one row per ticker, the id the run works with is the id of
\* that row, and a row once stored keeps its id, ticker and name through
\* every later step and run.
C11_GetOrCreateIdempotent ==
    /\ [](/\ \A i, j \in 1..Len(companies) :
                companies[i].ticker = companies[j].ticker => i = j
          /\ pc \in {"fetch", "loop", "retry", "load", "commit"} =>
                \E j \in 1..Len(companies) :
                    /\ companies[j].ticker = ticker
                    /\ companies[j].id = company_id)
    /\ [][/\ Len(companies') >= Len(companies)
          /\ \A j \in 1..Len(companies) : companies'[j] = companies[j]]_vars

\* a later run found the company stored by an earlier run and works with
\* its id, without a request for the overview
C11_Witness ==
    /\ run = 2
    /\ pc = "fetch"
    /\ Len(companies) = Len(COMPANIES)
    /\ company_id = CompanyIdOf(ticker)
    /\ company_id > 0
    /\ \A j \in 1..Len(log) : log[j].fn # "OVERVIEW"

\* C12: every request of a run that is followed by anything is followed at
\* once by the cooldown sleep of the same call, so a cooldown lies between
\* any two consecutive requests, the throttle retry included.
C12_CooldownAfterEveryRequest ==
    \A j \in 1..Len(log) :
        (log[j].op = "request" /\ j < Len(log)) =>
            /\ log[j + 1].op = "sleep"
            /\ log[j + 1].secs >= CooldownSeconds
            /\ log[j + 1].ticker = log[j].ticker
            /\ log[j + 1].fn = log[j].fn

\* a throttled statement was requested again after the long wait, and the
\* retry was followed by its own cooldown
C12_Witness ==
    \E j \in 3..Len(log) :
        /\ log[j].op = "request"
        /\ log[j - 1].op = "sleep" /\ log[j - 1].secs = ThrottleWaitSeconds
        /\ j < Len(log)
        /\ log[j + 1].op = "sleep" /\ log[j + 1].secs = CooldownSeconds
        /\ \E i \in 1..(j - 2) :
              /\ log[i].op = "request"
              /\ log[i].fn = log[j].fn /\ log[i].ticker = log[j].ticker

\* C20: the count printed at the end of a run is the number of rows the run
\* added to the table: the count starts a run at 0 and every step of the run
\* adds to it exactly the number of rows the step adds to the table, so a
\* run that adds nothing reports 0.
C20_SummaryCountExact ==
    [][/\ pc = "start" => total_rows_loaded' = 0
       /\ pc \notin {"start", "done", "aborted"} =>
             total_rows_loaded' - total_rows_loaded =
                 Len(financial_statements') - Len(financial_statements)]_vars

\* a second run over the payloads of the first finished with a count of 0
\* and a table that holds the rows of the first run
C20_Witness ==
    /\ run = 2
    /\ pc = "done"
    /\ total_rows_loaded = 0
    /\ Len(financial_statements) > 0
    /\ \E j \in 1..Len(log) : log[j].op = "commit"

(***************************************************************************)
(* Properties of the dashboards                                            *)
(***************************************************************************)
\* load_data() has returned
Loaded == pc \in {"no_data", "select", "calculate_metrics", "format", "shown"}

\* calculate_metrics() has returned
Calculated == pc \in {"format", "shown"}

\* the column of a metric in the frame of the running script
Col(metric) == IF app = "dashboard_initial" THEN Alias(metric) ELSE metric

\* the stored records, each with the ticker of its company
Stored == export_data_query(companies, financial_statements)

\* the frame in hand is what load_data() returns for the stored records:
\* under dashboard.py the file holds what export_data.py has written of
\* them and the frame is the one of the file
FrameOfStore ==
    app = "dashboard" =>
        /\ financial_data_csv.header # <<>>
        /\ financial_data_csv.rows = Stored
        /\ df = load_data(financial_data_csv).value

StoredGroups ==
    {<<Stored[i].ticker, Stored[i].fiscal_date_ending>> : i \in 1..Len(Stored)}

StoredValues(tk, date, metric) ==
    {Stored[i].metric_value : i \in
        {j \in 1..Len(Stored) : /\ Stored[j].ticker = tk
                                /\ Stored[j].fiscal_date_ending = date
                                /\ Stored[j].metric_name = metric}}

\* C13: in every row of the pivoted frame, each required metric is a value
\* stored for the row's company, date and metric when there is one, negative
\* values included, and 0 when there is none.
C13_ReshapeKeepsStoredValues ==
    (Loaded /\ FrameOfStore) =>
        \A i \in 1..Len(df) : \A m \in Range(RequiredMetrics) :
            LET vals == StoredValues(df[i].ticker, df[i].fiscal_date_ending, m)
            IN  IF vals = {} THEN df[i][Col(m)] = FromInt(0)
                ELSE \E v \in vals : df[i][Col(m)] = FromInt(v)

\* C14: the pivoted frame has exactly one row for every pair of company and
\* date that has a stored record, and no other row.
C14_OneRowPerStoredPeriod ==
    (Loaded /\ FrameOfStore) =>
        /\ {<<df[i].ticker, df[i].fiscal_date_ending>> : i \in 1..Len(df)}
               = StoredGroups
        /\ Len(df) = Cardinality(StoredGroups)

\* C15: the pivoted frame is in ascending order of ticker and, within a
\* ticker, of date; the metrics of the selected company keep that order and
\* the growth of their first row is NaN, shown as "N/A".
C15_SortedAndFirstGrowthNotAvailable ==
    /\ Loaded =>
          \A i \in 1..(Len(df) - 1) :
              \/ StrLess(df[i].ticker, df[i + 1].ticker)
              \/ /\ df[i].ticker = df[i + 1].ticker
                 /\ df[i].fiscal_date_ending < df[i + 1].fiscal_date_ending
    /\ Calculated =>
          /\ Len(metrics_df) >= 1
          /\ metrics_df[1].revenue_yoy_growth_pct = NaN
          /\ \A i \in 1..Len(metrics_df) :
                /\ metrics_df[i].ticker = selected_ticker
                /\ i > 1 => metrics_df[i - 1].fiscal_date_ending
                                < metrics_df[i].fiscal_date_ending
    /\ pc = "shown" =>
          /\ Len(formatted_df) = Len(metrics_df)
          /\ formatted_df[1].revenue_yoy_growth_pct = <<"N", "/", "A">>

\* both companies are in the frame, the selected one has two years, the
\* growth of the first is "N/A" and the growth of the second is a number
C15_Witness ==
    /\ pc = "shown"
    /\ \E i \in 1..Len(df) : df[i].ticker # selected_ticker
    /\ Len(formatted_df) = 2
    /\ formatted_df[1].revenue_yoy_growth_pct = <<"N", "/", "A">>
    /\ formatted_df[2].revenue_yoy_growth_pct = <<"1", "0", ".", "0", "0", "%">>

\* the revenue of row i of the selected company's rows of the frame
Revenue(i) == company_data[i][Col("totalRevenue")]

\* the float64 is a whole number
Whole(v) == v.k = "num" /\ v.e <= 0 /\ LowZero(v.m, -v.e)

RECURSIVE BigToInt(_)
BigToInt(a) == IF a = <<>> THEN 0 ELSE a[1] + Base * BigToInt(Tail(a))

\* the integer a whole float64 holds
IntOf(v) == v.s * BigToInt(BigShr(v.m, -v.e))

RECURSIVE DigitsToInt(_, _)
DigitsToInt(text, acc) ==
    IF text = <<>> THEN acc
    ELSE IF Head(text) \in {"-", ".", "%"} THEN DigitsToInt(Tail(text), acc)
    ELSE DigitsToInt(Tail(text), 10 * acc + DigitVal(Head(text)))

\* the text is a number with two decimals, and a percent sign if asked for
TwoDecimals(text, percent) ==
    LET body == IF percent THEN SubSeq(text, 1, Len(text) - 1) ELSE text
        digits == IF body # <<>> /\ body[1] = "-" THEN Tail(body) ELSE body
    IN  /\ percent => (text # <<>> /\ text[Len(text)] = "%")
        /\ Len(digits) >= 4
        /\ digits[Len(digits) - 2] = "."
        /\ \A j \in 1..Len(digits) :
              j # Len(digits) - 2 => digits[j] \in Range(DecimalDigits[1])

\* the number of hundredths a cell shows
Shown(text) ==
    IF text[1] = "-" THEN -DigitsToInt(text, 0) ELSE DigitsToInt(text, 0)

\* p / q lies halfway between two integers
Halfway(p, q) == (2 * p) % Abs(q) = 0 /\ p % Abs(q) # 0

\* the integer nearest to p / q, q # 0
Nearest(p, q) ==
    LET n == IF q < 0 THEN -p ELSE p
        d == Abs(q)
    IN  IF 2 * (n % d) < d THEN n \div d ELSE n \div d + 1

\* the cell shows p / q with two decimals, unless p / q lies halfway between
\* two numbers of two decimals, where the last bit of the float64 decides
ShowsQuotient(text, percent, p, q) ==
    /\ TwoDecimals(text, percent)
    /\ ~Halfway(100 * p, q) => Shown(text) = Nearest(100 * p, q)

\* C16 as stated: for every row but the first of the selected company's
\* series whose own and preceding revenue are not 0, the growth shown is
\* (revenue[i] - revenue[i-1]) / revenue[i-1] * 100 with two decimals and a
\* percent sign; row i-1 is a row of the same company, the nearest earlier
\* one of the frame and, under either script, the nearest earlier stored
\* date of the company.
C16_GrowthOverPrecedingRow ==
    Calculated =>
        \A i \in 2..Len(metrics_df) :
            /\ company_data[i - 1].ticker = selected_ticker
            /\ company_data[i].fiscal_date_ending
                   = metrics_df[i].fiscal_date_ending
            /\ \A j \in 1..Len(df) :
                  df[j].ticker = selected_ticker =>
                      \/ df[j].fiscal_date_ending
                             <= company_data[i - 1].fiscal_date_ending
                      \/ df[j].fiscal_date_ending
                             >= company_data[i].fiscal_date_ending
            /\ FrameOfStore =>
                  \A g \in StoredGroups :
                      g[1] = selected_ticker =>
                          \/ g[2] <= company_data[i - 1].fiscal_date_ending
                          \/ g[2] >= company_data[i].fiscal_date_ending
            /\ (/\ pc = "shown"
                /\ Whole(Revenue(i)) /\ ~IsZero(Revenue(i))
                /\ Whole(Revenue(i - 1)) /\ ~IsZero(Revenue(i - 1))) =>
                  ShowsQuotient(formatted_df[i].revenue_yoy_growth_pct, TRUE,
                                100 * (IntOf(Revenue(i)) - IntOf(Revenue(i - 1))),
                                IntOf(Revenue(i - 1)))

\* C17: for every row of the selected company under dashboard.py, with a
\* revenue that is not 0 the three margins shown are gross profit, operating
\* income and net income over revenue times 100, and with current
\* liabilities that are not 0 the current ratio shown is current assets over
\* current liabilities, each with two decimals.
C17_MarginsAndCurrentRatio ==
    (pc = "shown" /\ app = "dashboard") =>
        \A i \in 1..Len(metrics_df) :
            LET w == company_data[i]
                cell == formatted_df[i]
                whole == \A m \in Range(RequiredMetrics) : Whole(w[m])
            IN  /\ (whole /\ ~IsZero(w.totalRevenue)) =>
                      /\ ShowsQuotient(cell.gross_margin_pct, TRUE,
                             100 * IntOf(w.grossProfit), IntOf(w.totalRevenue))
                      /\ ShowsQuotient(cell.operating_margin_pct, TRUE,
                             100 * IntOf(w.operatingIncome),
                             IntOf(w.totalRevenue))
                      /\ ShowsQuotient(cell.net_margin_pct, TRUE,
                             100 * IntOf(w.netIncome), IntOf(w.totalRevenue))
                /\ (whole /\ ~IsZero(w.totalCurrentLiabilities)) =>
                      ShowsQuotient(cell.current_ratio, FALSE,
                          IntOf(w.totalCurrentAssets),
                          IntOf(w.totalCurrentLiabilities))

\* revenue 1000, gross profit 400, operating income 200, net income 100 are
\* shown as 40.00%, 20.00%, 10.00%, and 500 over 250 as 2.00
C17_Witness ==
    /\ pc = "shown"
    /\ app = "dashboard"
    /\ \E i \in 1..Len(metrics_df) :
          /\ company_data[i].totalRevenue = FromInt(1000)
          /\ company_data[i].grossProfit = FromInt(400)
          /\ company_data[i].operatingIncome = FromInt(200)
          /\ company_data[i].netIncome = FromInt(100)
          /\ formatted_df[i].gross_margin_pct = <<"4", "0", ".", "0", "0", "%">>
          /\ formatted_df[i].operating_margin_pct
                = <<"2", "0", ".", "0", "0", "%">>
          /\ formatted_df[i].net_margin_pct = <<"1", "0", ".", "0", "0", "%">>
          /\ formatted_df[i].current_ratio = <<"2", ".", "0", "0">>

\* C18: every margin and current ratio of the selected company is a finite
\* number, and so is every growth but the first row's, whatever the revenue
\* and the current liabilities of the rows are; each is shown as a number.
C18_NoDivisionByZero ==
    Calculated =>
        \A i \in 1..Len(metrics_df) : \A c \in Range(display_cols) :
            (c = "revenue_yoy_growth_pct" /\ i = 1) \/
                /\ metrics_df[i][c].k = "num"
                /\ pc = "shown" => TwoDecimals(formatted_df[i][c], HasPct(c))

\* a year without revenue is followed by a year with revenue 1100, current
\* assets 500 and current liabilities 0: the current ratio of the second
\* year is 500 / 1e-9 and its growth is 1100 / 1e-9 - 1, times 100
C18_Witness ==
    /\ pc = "shown"
    /\ Len(metrics_df) = 2
    /\ IsZero(Revenue(1))
    /\ metrics_df[1].gross_margin_pct.k = "num"
    /\ Revenue(2) = FromInt(1100)
    /\ company_data[2][Col("totalCurrentAssets")] = FromInt(500)
    /\ IsZero(company_data[2][Col("totalCurrentLiabilities")])
    /\ metrics_df[2].current_ratio = truediv(FromInt(500), Epsilon)
    /\ formatted_df[2].current_ratio
          = <<"5", "0", "0", "0", "0", "0", "0", "0", "0", "0", "0", "0", ".",
              "0", "0">>
    /\ formatted_df[2].revenue_yoy_growth_pct
          = <<"1", "0", "9", "9", "9", "9", "9", "9", "9", "9", "9", "9", "9",
              "0", "0", ".", "0", "0", "%">>

\* number of the requests of one call in the log of the run
NReq(tk, fn) == Cardinality(ReqIdx(tk, fn))

\* C21 as stated: a run that ended without a failed request, be it a status
\* that is not 2xx or a call that got no response, has issued, for every
\* configured company, at most one overview request and one or two requests
\* of each of the three statement kinds.
C21_ThreeStatementsForEveryCompany ==
    (/\ pc \in {"done", "aborted"}
     /\ error \notin {"HTTPError", "ConnectionError"}) =>
        \A tk \in Tickers :
            /\ NReq(tk, "OVERVIEW") <= 1
            /\ \A kind \in Kinds : NReq(tk, kind) \in {1, 2}

====
